---- MODULE Spec2Model ----
(***************************************************************************)
(* Radio access arbitration of the OpenThread snapshot: the RadioScheduler *)
(* (radio_scheduler.hpp/.cpp) with its three RadioInterface consumers      *)
(* (Mac, Csl, Wed), the simulation radio driver it drives                  *)
(* (examples/platforms/simulation/radio.c) and the Wake-up End Device      *)
(* timer of SubMac that opens the wake-up listen windows.                  *)
(*                                                                         *)
(* One action models one whole call: a request, a driver completion        *)
(* callback or a timer firing, with every driver call it makes.            *)
(***************************************************************************)
EXTENDS Integers, Sequences, FiniteSets, TLC

\* ------------------------------------------------------------------ bounds

\* Number of channels the MAC moves its receiver between.
NumMacChannels == 1

\* ------------------------------------------------------- program constants

\* RadioScheduler's role indexes (enum of RadioScheduler).
kRadioMac == 0
kRadioCsl == 1
kRadioWed == 2
kNumRadios == 3

Roles == kRadioMac .. (kNumRadios - 1)

\* The channels each role asks for: the MAC's PAN channels from 11 on, the CSL
\* peer's channel 20, the wake-up channel 29.
ChannelsOf(r) ==
    IF r = kRadioMac THEN {11 + k : k \in 0 .. (NumMacChannels - 1)}
    ELSE IF r = kRadioCsl THEN {20}
    ELSE {29}

\* RadioInterface::Priority.
kPriorityMin == 0
kPrioritySleep == 1
kPriorityReceiveMin == 2
kPriorityReceiveWed == 7
kPriorityReceiveCsl == 9
kPriorityReceiveMac == 11
kPriorityReceiveMax == 13
kPriorityTransmitBelowReceive == kPriorityReceiveCsl - 1
kPriorityTransmit == 14
kPriorityEnergyScan == 14
kPriorityMax == 15

\* RadioInterface::State.
kStateDisabled == "Disabled"
kStateEnabled == "Enabled"
kStateSleep == "Sleep"
kStateReceive == "Receive"
kStateTransmit == "Transmit"
kStateEnergyScan == "EnergyScan"

\* otError values used by the scheduler and the driver.
kErrorNone == "None"
kErrorInvalidState == "InvalidState"
kErrorBusy == "Busy"
kErrorNotImplemented == "NotImplemented"
kErrorFailed == "Failed"

\* otRadioState of the simulation driver.
OT_RADIO_STATE_DISABLED == "DISABLED"
OT_RADIO_STATE_SLEEP == "SLEEP"
OT_RADIO_STATE_RECEIVE == "RECEIVE"
OT_RADIO_STATE_TRANSMIT == "TRANSMIT"

\* Radio capabilities that decide a driver answer or the timer strategy.
OT_RADIO_CAPS_ENERGY_SCAN == "ENERGY_SCAN"
OT_RADIO_CAPS_RECEIVE_TIMING == "RECEIVE_TIMING"

\* The capability sets considered: the simulation build's, which has neither
\* capability, and a hardware radio's, which has both.
NoCaps == {}
HardwareCaps == {OT_RADIO_CAPS_ENERGY_SCAN, OT_RADIO_CAPS_RECEIVE_TIMING}

\* Who makes a driver call.
kByScheduler == "RadioScheduler"
kBySubMac == "SubMac"

VARIABLES
    mRadios,        \* RadioScheduler::mRadios: role -> [mState, mCurPriority, mChannel]
    radio,          \* the driver: [sState, sEnergyScanning]
    gRadioCaps,     \* the driver's capabilities, fixed by the build/hardware
    mIsRx,          \* SubMac::mIsRx: the toggle strategy's phase
    mWedTimer,      \* SubMac::mWedTimer is running (armed)
    mWakeupChannel, \* SubMac::mWakeupChannel
    lastOp,         \* history: the call that was just handled, and its result
    issued,         \* history: the driver calls the last call made, in order
    lastPrim,       \* history: the most recent Sleep/Receive issued to the driver
    preBid,         \* history: the winning Sleep/Receive bid when the transmit or scan began,
                    \*          kept while no consumer has made a request since
    deferred,       \* history: roles whose standing Receive bid was made during the
                    \*          transmit the Mac consumer is in
    answers,        \* history: the driver's answers to the calls the scheduler made in
                    \*          the last call, in order
    forwarded,      \* history: what the last call handed on to SubMac's completion handler
    wed,            \* SubMac's WED timing: its fields, the clocks and the alarm, with times
    csl,            \* SubMac's CSL timing: the clock, the sample time and the phase computed
    p2p,            \* Mle's peer-to-peer link state: mP2pState, mP2pTimer, the peers, the callbacks
    survey          \* SiteSurvey: mRole, mState, mTimer and the last command's result

vars == <<mRadios, radio, gRadioCaps, mIsRx, mWedTimer, mWakeupChannel,
          lastOp, issued, lastPrim, preBid, deferred, answers, forwarded, wed, csl,
          p2p, survey>>

\* The variables of the scheduler and its history.
schedulerVars == <<mRadios, radio, mIsRx, mWedTimer, mWakeupChannel,
                   lastOp, issued, lastPrim, preBid, deferred, answers, forwarded>>

\* ------------------------------------------------------- RadioInterface

\* The receive priority each RadioInterface is constructed with
\* (RadioScheduler's constructor).
ReceivePriorityReversed(r) ==
    IF r = kRadioMac THEN kPriorityReceiveWed
    ELSE IF r = kRadioCsl THEN kPriorityReceiveCsl
    ELSE kPriorityReceiveMac

ReceivePriorityAtSleepPriority(r) == kPrioritySleep

ReceivePriority(r) ==
    IF r = kRadioMac THEN kPriorityReceiveMac
    ELSE IF r = kRadioCsl THEN kPriorityReceiveCsl
    ELSE kPriorityReceiveWed

RadioInterfaceAtMinPriority(r) ==
    [mState |-> kStateDisabled, mCurPriority |-> kPriorityMin, mChannel |-> 0]

\* RadioInterface's constructor.
RadioInterface(r) ==
    [mState |-> kStateDisabled, mCurPriority |-> kPriorityMax, mChannel |-> 0]

\* RadioInterface::SetStateAndPriority on consumer r of the table.
SetStateAndPriority(radios, r, aState, aPriority) ==
    [radios EXCEPT ![r].mState = aState, ![r].mCurPriority = aPriority]

\* RadioInterface::SetChannel on consumer r of the table.
SetChannel(radios, r, aChannel) ==
    [radios EXCEPT ![r].mChannel = aChannel]

\* ------------------------------------------------ the simulation driver

\* A call on the driver: the primitive, its channel argument and the caller.
Call(op, channel, by) ==
    [op |-> op, channel |-> channel, by |-> by]

\* otPlatRadioEnable.
otPlatRadioEnable(drv) ==
    [error |-> kErrorNone,
     radio |-> IF drv.sState = OT_RADIO_STATE_DISABLED
               THEN [drv EXCEPT !.sState = OT_RADIO_STATE_SLEEP]
               ELSE drv]

\* otPlatRadioDisable.
otPlatRadioDisable(drv) ==
    IF drv.sState = OT_RADIO_STATE_DISABLED
    THEN [error |-> kErrorNone, radio |-> drv]
    ELSE IF drv.sState # OT_RADIO_STATE_SLEEP
    THEN [error |-> kErrorInvalidState, radio |-> drv]
    ELSE [error |-> kErrorNone, radio |-> [drv EXCEPT !.sState = OT_RADIO_STATE_DISABLED]]

\* otPlatRadioSleep.
otPlatRadioSleep(drv) ==
    IF drv.sState \in {OT_RADIO_STATE_SLEEP, OT_RADIO_STATE_RECEIVE}
    THEN [error |-> kErrorNone, radio |-> [drv EXCEPT !.sState = OT_RADIO_STATE_SLEEP]]
    ELSE [error |-> kErrorInvalidState, radio |-> drv]

\* otPlatRadioReceive.
otPlatRadioReceive(drv) ==
    IF drv.sState # OT_RADIO_STATE_DISABLED
    THEN [error |-> kErrorNone, radio |-> [drv EXCEPT !.sState = OT_RADIO_STATE_RECEIVE]]
    ELSE [error |-> kErrorInvalidState, radio |-> drv]

\* otPlatRadioTransmit.
otPlatRadioTransmit(drv) ==
    IF drv.sState = OT_RADIO_STATE_RECEIVE
    THEN [error |-> kErrorNone, radio |-> [drv EXCEPT !.sState = OT_RADIO_STATE_TRANSMIT]]
    ELSE [error |-> kErrorInvalidState, radio |-> drv]

\* otPlatRadioEnergyScan.
otPlatRadioEnergyScan(drv, caps) ==
    IF OT_RADIO_CAPS_ENERGY_SCAN \notin caps
    THEN [error |-> kErrorNotImplemented, radio |-> drv]
    ELSE IF drv.sEnergyScanning
    THEN [error |-> kErrorBusy, radio |-> drv]
    ELSE [error |-> kErrorNone, radio |-> [drv EXCEPT !.sEnergyScanning = TRUE]]

\* The driver's receive-at primitive: the window is scheduled or it is not.
otPlatRadioReceiveAt(drv, aAccepted) ==
    [error |-> IF aAccepted THEN kErrorNone ELSE kErrorFailed, radio |-> drv]

\* --------------------------------------------------------- arbitration

RECURSIVE ScanRadiosKeepingLast(_, _, _, _)
ScanRadiosKeepingLast(radios, i, index, maxPriority) ==
    IF i >= kNumRadios
    THEN index
    ELSE IF radios[i].mCurPriority > maxPriority
         THEN ScanRadiosKeepingLast(radios, i + 1, i, maxPriority)
         ELSE ScanRadiosKeepingLast(radios, i + 1, index, maxPriority)

\* The scan loop of RadioScheduler::ReceiveOrSleep from consumer i on.
RECURSIVE ScanRadios(_, _, _, _)
ScanRadios(radios, i, index, maxPriority) ==
    IF i >= kNumRadios
    THEN index
    ELSE IF radios[i].mCurPriority > maxPriority
         THEN ScanRadios(radios, i + 1, i, radios[i].mCurPriority)
         ELSE ScanRadios(radios, i + 1, index, maxPriority)

ReceiveOrSleepSkippingRepeats(radios, drv) ==
    LET index == ScanRadios(radios, 0, kNumRadios, kPriorityMin)
    IN  IF ~(index < kNumRadios)
        THEN [radio |-> drv, calls |-> <<>>, errors |-> <<>>]
        ELSE IF radios[index].mState = kStateSleep /\ drv.sState # OT_RADIO_STATE_SLEEP
        THEN LET res == otPlatRadioSleep(drv)
             IN  [radio |-> res.radio,
                  calls |-> <<Call("Sleep", 0, kByScheduler)>>,
                  errors |-> <<res.error>>]
        ELSE IF radios[index].mState = kStateReceive /\ drv.sState # OT_RADIO_STATE_RECEIVE
        THEN LET res == otPlatRadioReceive(drv)
             IN  [radio |-> res.radio,
                  calls |-> <<Call("Receive", radios[index].mChannel, kByScheduler)>>,
                  errors |-> <<res.error>>]
        ELSE [radio |-> drv, calls |-> <<>>, errors |-> <<>>]

\* RadioScheduler::ReceiveOrSleep: the driver afterwards and the calls made.
ReceiveOrSleep(radios, drv) ==
    LET index == ScanRadios(radios, 0, kNumRadios, kPriorityMin)
    IN  IF ~(index < kNumRadios)
        THEN [radio |-> drv, calls |-> <<>>, errors |-> <<>>]
        ELSE IF radios[index].mState = kStateSleep
        THEN LET res == otPlatRadioSleep(drv)
             IN  [radio |-> res.radio,
                  calls |-> <<Call("Sleep", 0, kByScheduler)>>,
                  errors |-> <<res.error>>]
        ELSE IF radios[index].mState = kStateReceive
        THEN LET res == otPlatRadioReceive(drv)
             IN  [radio |-> res.radio,
                  calls |-> <<Call("Receive", radios[index].mChannel, kByScheduler)>>,
                  errors |-> <<res.error>>]
        ELSE [radio |-> drv, calls |-> <<>>, errors |-> <<>>]

\* ----------------------------------------------------- SubMac's WED timer

\* SubMac::HandleReceiveAt: the hardware-scheduled strategy.  The timer is
\* re-armed and, unless SubMac is disabled, the driver is asked for a receive
\* window on the wake-up channel.  The driver's answer is ignored and the
\* window opens later, in hardware: the driver is as it was when the call
\* returns.
HandleReceiveAt(isRx, channel, drv, subMacEnabled) ==
    [mIsRx |-> isRx,
     radio |-> drv,
     calls |-> IF subMacEnabled
               THEN <<Call("ReceiveAt", channel, kBySubMac)>>
               ELSE <<>>]

\* SubMac::HandleReceiveAndSleep: the toggle strategy.  The timer is re-armed;
\* in the receiving phase the driver is put in Receive on the wake-up channel,
\* in the sleeping phase no driver call is made; the phase flips.
HandleReceiveAndSleep(isRx, channel, drv, subMacEnabled) ==
    LET res == otPlatRadioReceive(drv)
    IN  [mIsRx |-> ~isRx,
         radio |-> IF subMacEnabled /\ isRx THEN res.radio ELSE drv,
         calls |-> IF subMacEnabled /\ isRx
                   THEN <<Call("Receive", channel, kBySubMac)>>
                   ELSE <<>>]

\* SubMac::HandleWedTimer: the strategy is chosen by the radio's capability.
HandleWedTimer(isRx, channel, drv, caps, subMacEnabled) ==
    IF OT_RADIO_CAPS_RECEIVE_TIMING \in caps
    THEN HandleReceiveAt(isRx, channel, drv, subMacEnabled)
    ELSE HandleReceiveAndSleep(isRx, channel, drv, subMacEnabled)

\* ------------------------------------------------------------- history

Op(name, role, error, pre, waiting) ==
    [name |-> name, role |-> role, error |-> error, pre |-> pre, waiting |-> waiting]

Prim(op, channel) == [op |-> op, channel |-> channel]

NoPrim == Prim("None", 0)

RECURSIVE LastSleepOrReceive(_, _)
LastSleepOrReceive(calls, prev) ==
    IF calls = <<>>
    THEN prev
    ELSE LET c == calls[Len(calls)]
         IN  IF c.op \in {"Sleep", "Receive"}
             THEN Prim(c.op, c.channel)
             ELSE LastSleepOrReceive(SubSeq(calls, 1, Len(calls) - 1), prev)

\* The consumers holding a Sleep or Receive bid.
Bidders(radios) ==
    {r \in Roles : radios[r].mState \in {kStateSleep, kStateReceive}}

\* The reference selection: the bidder no other bidder outranks, the first in
\* role order among equals.
TopBidder(radios) ==
    CHOOSE r \in Bidders(radios) :
        \A q \in Bidders(radios) :
            \/ radios[q].mCurPriority < radios[r].mCurPriority
            \/ (radios[q].mCurPriority = radios[r].mCurPriority /\ r <= q)

\* The primitive a consumer's bid stands for.
BidOf(radios, r) ==
    IF radios[r].mState = kStateSleep
    THEN Prim("Sleep", 0)
    ELSE Prim("Receive", radios[r].mChannel)

\* What the reference selection issues: nothing without a bidder.
ReferenceBid(radios) ==
    IF Bidders(radios) = {} THEN NoPrim ELSE BidOf(radios, TopBidder(radios))

\* What a completion callback hands on to SubMac: the event, and the Mac
\* consumer and the driver calls made as they are at that moment.
Forward(event, radios, calls) ==
    [event |-> event, mac |-> radios[kRadioMac], calls |-> calls]

\* Nothing was handed on.
NoEvent == [event |-> "None"]

\* The timing of the WED and CSL samplers, the peer-to-peer links and the
\* site survey are left out of the scheduler's behaviours.
NoTiming == [last |-> "None"]

\* ---------------------------------------------------------------- Init

\* The scheduler, the driver and SubMac's WED fields after construction.
SchedulerInit ==
    /\ mRadios = [r \in Roles |-> RadioInterface(r)]
    /\ radio = [sState |-> OT_RADIO_STATE_DISABLED, sEnergyScanning |-> FALSE]
    /\ mIsRx = FALSE
    /\ mWedTimer = FALSE
    /\ mWakeupChannel = 0
    /\ lastOp = Op("Init", kNumRadios, kErrorNone, NoPrim, {})
    /\ issued = <<>>
    /\ lastPrim = NoPrim
    /\ preBid = NoPrim
    /\ deferred = {}
    /\ answers = <<>>
    /\ forwarded = NoEvent

Init ==
    /\ SchedulerInit
    /\ gRadioCaps \in {NoCaps, HardwareCaps}
    /\ wed = NoTiming
    /\ csl = NoTiming
    /\ p2p = NoTiming
    /\ survey = NoTiming

\* ------------------------------------------------------------- actions

SchedulerSleepClearingChannel(radios, drv, r) ==
    LET radios1 == SetChannel(SetStateAndPriority(radios, r, kStateSleep, kPrioritySleep), r, 0)
        arb     == ReceiveOrSleep(radios1, drv)
    IN  [mRadios |-> radios1, radio |-> arb.radio, calls |-> arb.calls, errors |-> arb.errors,
         error |-> kErrorNone]

\* RadioScheduler::Sleep: the table, the driver and the calls afterwards, and
\* the error returned.
SchedulerSleep(radios, drv, r) ==
    LET radios1 == SetStateAndPriority(radios, r, kStateSleep, kPrioritySleep)
        arb     == ReceiveOrSleep(radios1, drv)
    IN  [mRadios |-> radios1, radio |-> arb.radio, calls |-> arb.calls, errors |-> arb.errors,
         error |-> kErrorNone]

\* RadioScheduler::Receive: the table, the driver and the calls afterwards, and
\* the error returned.
SchedulerReceive(radios, drv, r, aReceivePriority, aChannel) ==
    LET radios1 == SetChannel(SetStateAndPriority(radios, r, kStateReceive, aReceivePriority),
                              r, aChannel)
        arb     == ReceiveOrSleep(radios1, drv)
    IN  [mRadios |-> radios1, radio |-> arb.radio, calls |-> arb.calls, errors |-> arb.errors,
         error |-> kErrorNone]

\* RadioInterface::Sleep.
Sleep(r) ==
    LET res == SchedulerSleep(mRadios, radio, r)
    IN  /\ mRadios' = res.mRadios
        /\ radio' = res.radio
        /\ issued' = res.calls
        /\ answers' = res.errors
        /\ forwarded' = NoEvent
        /\ lastOp' = Op("Sleep", r, res.error, NoPrim, {})
        /\ lastPrim' = LastSleepOrReceive(res.calls, lastPrim)
        /\ preBid' = NoPrim
        /\ deferred' = IF r = kRadioMac THEN {} ELSE deferred \ {r}
        /\ UNCHANGED <<wed, csl, p2p, survey, gRadioCaps, mIsRx, mWedTimer, mWakeupChannel>>

\* RadioInterface::Receive.
Receive(r, aChannel) ==
    LET res == SchedulerReceive(mRadios, radio, r, ReceivePriority(r), aChannel)
    IN  /\ mRadios' = res.mRadios
        /\ radio' = res.radio
        /\ issued' = res.calls
        /\ answers' = res.errors
        /\ forwarded' = NoEvent
        /\ lastOp' = Op("Receive", r, res.error, NoPrim, {})
        /\ lastPrim' = LastSleepOrReceive(res.calls, lastPrim)
        /\ preBid' = NoPrim
        /\ deferred' = IF r = kRadioMac THEN {}
                       ELSE IF mRadios[kRadioMac].mState = kStateTransmit
                       THEN deferred \cup {r}
                       ELSE deferred \ {r}
        /\ UNCHANGED <<wed, csl, p2p, survey, gRadioCaps, mIsRx, mWedTimer, mWakeupChannel>>

SchedulerReceiveAtIgnoringError(radios, drv, aAccepted) ==
    LET res == otPlatRadioReceiveAt(drv, aAccepted)
    IN  [mRadios |-> radios, radio |-> res.radio, errors |-> <<res.error>>, error |-> kErrorNone]

\* RadioScheduler::ReceiveAt: the table and the driver afterwards, the driver's
\* answer and the error returned.
SchedulerReceiveAt(radios, drv, aAccepted) ==
    LET res == otPlatRadioReceiveAt(drv, aAccepted)
    IN  [mRadios |-> radios, radio |-> res.radio, errors |-> <<res.error>>, error |-> res.error]

\* RadioInterface::ReceiveAt -> RadioScheduler::ReceiveAt, for the Csl and Wed roles.
ReceiveAt(r, aChannel, aAccepted) ==
    LET res == SchedulerReceiveAt(mRadios, radio, aAccepted)
    IN  /\ r \in {kRadioCsl, kRadioWed}
        /\ radio' = res.radio
        /\ mRadios' = res.mRadios
        /\ answers' = res.errors
        /\ forwarded' = NoEvent
        /\ issued' = <<Call("ReceiveAt", aChannel, kByScheduler)>>
        /\ lastOp' = Op("ReceiveAt", r, res.error, NoPrim, {})
        /\ UNCHANGED <<wed, csl, p2p, survey, gRadioCaps, mIsRx, mWedTimer, mWakeupChannel, lastPrim, preBid,
                       deferred>>

\* RadioScheduler::Enable: the table and the driver afterwards, and the error
\* returned.
SchedulerEnable(radios, drv) ==
    LET res == otPlatRadioEnable(drv)
    IN  [mRadios |-> IF res.error = kErrorNone
                     THEN [r \in Roles |->
                              [radios[r] EXCEPT !.mState = kStateEnabled,
                                                !.mCurPriority = kPriorityMin]]
                     ELSE radios,
         radio |-> res.radio, errors |-> <<res.error>>, error |-> res.error]

\* The MAC layer calls RadioScheduler::Enable.
Enable ==
    LET res == SchedulerEnable(mRadios, radio)
        ok  == res.error = kErrorNone
    IN  /\ radio' = res.radio
        /\ mRadios' = res.mRadios
        /\ answers' = res.errors
        /\ forwarded' = NoEvent
        /\ issued' = <<Call("Enable", 0, kByScheduler)>>
        /\ lastOp' = Op("Enable", kNumRadios, res.error, NoPrim, {})
        /\ preBid' = IF ok THEN NoPrim ELSE preBid
        /\ deferred' = IF ok THEN {} ELSE deferred
        /\ UNCHANGED <<wed, csl, p2p, survey, gRadioCaps, mIsRx, mWedTimer, mWakeupChannel, lastPrim>>

SchedulerDisableSettingTableFirst(radios, drv) ==
    LET res == otPlatRadioDisable(drv)
    IN  [mRadios |-> [r \in Roles |->
                         [radios[r] EXCEPT !.mState = kStateDisabled,
                                           !.mCurPriority = kPriorityMax]],
         radio |-> res.radio, errors |-> <<res.error>>, error |-> res.error]

\* RadioScheduler::Disable: the table and the driver afterwards, and the error
\* returned.
SchedulerDisable(radios, drv) ==
    LET res == otPlatRadioDisable(drv)
    IN  [mRadios |-> IF res.error = kErrorNone
                     THEN [r \in Roles |->
                              [radios[r] EXCEPT !.mState = kStateDisabled,
                                                !.mCurPriority = kPriorityMax]]
                     ELSE radios,
         radio |-> res.radio, errors |-> <<res.error>>, error |-> res.error]

\* The MAC layer calls RadioScheduler::Disable.
Disable ==
    LET res == SchedulerDisable(mRadios, radio)
        ok  == res.error = kErrorNone
    IN  /\ radio' = res.radio
        /\ mRadios' = res.mRadios
        /\ answers' = res.errors
        /\ forwarded' = NoEvent
        /\ issued' = <<Call("Disable", 0, kByScheduler)>>
        /\ lastOp' = Op("Disable", kNumRadios, res.error, NoPrim, {})
        /\ preBid' = IF ok THEN NoPrim ELSE preBid
        /\ deferred' = IF ok THEN {} ELSE deferred
        /\ UNCHANGED <<wed, csl, p2p, survey, gRadioCaps, mIsRx, mWedTimer, mWakeupChannel, lastPrim>>

SchedulerTransmitSettingStateFirst(radios, drv) ==
    LET res == otPlatRadioTransmit(drv)
    IN  [mRadios |-> SetStateAndPriority(radios, kRadioMac, kStateTransmit, kPriorityTransmit),
         radio |-> res.radio, errors |-> <<res.error>>, error |-> res.error]

\* RadioScheduler::Transmit: the table and the driver afterwards, and the error
\* returned.
SchedulerTransmit(radios, drv) ==
    LET res == otPlatRadioTransmit(drv)
    IN  [mRadios |-> IF res.error = kErrorNone
                     THEN SetStateAndPriority(radios, kRadioMac, kStateTransmit,
                                              kPriorityTransmit)
                     ELSE radios,
         radio |-> res.radio, errors |-> <<res.error>>, error |-> res.error]

\* The MAC layer calls RadioScheduler::Transmit.
Transmit ==
    LET res == SchedulerTransmit(mRadios, radio)
        ok  == res.error = kErrorNone
    IN  /\ radio' = res.radio
        /\ mRadios' = res.mRadios
        /\ answers' = res.errors
        /\ forwarded' = NoEvent
        /\ issued' = <<Call("Transmit", 0, kByScheduler)>>
        /\ lastOp' = Op("Transmit", kRadioMac, res.error, NoPrim, {})
        /\ preBid' = IF ok THEN ReferenceBid(mRadios) ELSE preBid
        /\ deferred' = IF ok THEN {} ELSE deferred
        /\ UNCHANGED <<wed, csl, p2p, survey, gRadioCaps, mIsRx, mWedTimer, mWakeupChannel, lastPrim>>

\* RadioScheduler::EnergyScan: the table and the driver afterwards, and the
\* error returned.
SchedulerEnergyScan(radios, drv, caps) ==
    LET res == otPlatRadioEnergyScan(drv, caps)
    IN  [mRadios |-> IF res.error = kErrorNone
                     THEN SetStateAndPriority(radios, kRadioMac, kStateEnergyScan,
                                              kPriorityEnergyScan)
                     ELSE radios,
         radio |-> res.radio, errors |-> <<res.error>>, error |-> res.error]

\* The MAC layer calls RadioScheduler::EnergyScan.
EnergyScan(aScanChannel) ==
    LET res == SchedulerEnergyScan(mRadios, radio, gRadioCaps)
        ok  == res.error = kErrorNone
    IN  /\ radio' = res.radio
        /\ mRadios' = res.mRadios
        /\ answers' = res.errors
        /\ forwarded' = NoEvent
        /\ issued' = <<Call("EnergyScan", aScanChannel, kByScheduler)>>
        /\ lastOp' = Op("EnergyScan", kRadioMac, res.error, NoPrim, {})
        /\ preBid' = IF ok THEN ReferenceBid(mRadios) ELSE preBid
        /\ deferred' = IF ok THEN {} ELSE deferred
        /\ UNCHANGED <<wed, csl, p2p, survey, gRadioCaps, mIsRx, mWedTimer, mWakeupChannel, lastPrim>>

TransmitDoneWithoutArbitration(radios, drv) ==
    [mRadios |-> SetStateAndPriority(radios, kRadioMac, kStateEnabled, kPriorityMin),
     radio |-> drv, calls |-> <<>>, errors |-> <<>>]

\* RadioScheduler::TransmitDone: the table, the driver and the calls afterwards.
TransmitDone(radios, drv) ==
    LET radios1 == SetStateAndPriority(radios, kRadioMac, kStateEnabled, kPriorityMin)
        arb     == ReceiveOrSleep(radios1, drv)
    IN  [mRadios |-> radios1, radio |-> arb.radio, calls |-> arb.calls, errors |-> arb.errors]

\* RadioScheduler::EnergyScanDone: the table, the driver and the calls afterwards.
EnergyScanDone(radios, drv) ==
    LET radios1 == SetStateAndPriority(radios, kRadioMac, kStateEnabled, kPriorityMin)
        arb     == ReceiveOrSleep(radios1, drv)
    IN  [mRadios |-> radios1, radio |-> arb.radio, calls |-> arb.calls, errors |-> arb.errors]

CallbacksForwardingBeforeArbitration(radios, drv) ==
    LET done == TransmitDone(radios, drv)
    IN  [mRadios |-> done.mRadios, radio |-> done.radio, calls |-> done.calls,
         errors |-> done.errors,
         forwarded |-> Forward("TransmitDone", radios, <<>>)]

\* RadioScheduler::Callbacks::HandleTransmitDone: the scheduler's TransmitDone,
\* then the event is handed on to SubMac::HandleTransmitDone.
CallbacksHandleTransmitDone(radios, drv) ==
    LET done == TransmitDone(radios, drv)
    IN  [mRadios |-> done.mRadios, radio |-> done.radio, calls |-> done.calls,
         errors |-> done.errors,
         forwarded |-> Forward("TransmitDone", done.mRadios, done.calls)]

\* RadioScheduler::Callbacks::HandleEnergyScanDone: the scheduler's
\* EnergyScanDone, then the event is handed on to SubMac::HandleEnergyScanDone.
CallbacksHandleEnergyScanDone(radios, drv) ==
    LET done == EnergyScanDone(radios, drv)
    IN  [mRadios |-> done.mRadios, radio |-> done.radio, calls |-> done.calls,
         errors |-> done.errors,
         forwarded |-> Forward("EnergyScanDone", done.mRadios, done.calls)]

\* The driver ends the transmission (radioSendMessage / radioReceive) and calls
\* RadioScheduler::Callbacks::HandleTransmitDone.
HandleTransmitDone ==
    LET res == CallbacksHandleTransmitDone(mRadios,
                                           [radio EXCEPT !.sState = OT_RADIO_STATE_RECEIVE])
    IN  /\ radio.sState = OT_RADIO_STATE_TRANSMIT
        /\ answers' = res.errors
        /\ forwarded' = res.forwarded
        /\ mRadios' = res.mRadios
        /\ radio' = res.radio
        /\ issued' = res.calls
        /\ lastOp' = Op("TransmitDone", kRadioMac, kErrorNone, preBid, deferred)
        /\ lastPrim' = LastSleepOrReceive(res.calls, lastPrim)
        /\ preBid' = NoPrim
        /\ deferred' = {}
        /\ UNCHANGED <<wed, csl, p2p, survey, gRadioCaps, mIsRx, mWedTimer, mWakeupChannel>>

\* The driver ends the energy scan (platformRadioProcess) and calls
\* RadioScheduler::Callbacks::HandleEnergyScanDone.
HandleEnergyScanDone ==
    LET res == CallbacksHandleEnergyScanDone(mRadios, [radio EXCEPT !.sEnergyScanning = FALSE])
    IN  /\ radio.sEnergyScanning
        /\ answers' = res.errors
        /\ forwarded' = res.forwarded
        /\ mRadios' = res.mRadios
        /\ radio' = res.radio
        /\ issued' = res.calls
        /\ lastOp' = Op("EnergyScanDone", kRadioMac, kErrorNone, preBid, {})
        /\ lastPrim' = LastSleepOrReceive(res.calls, lastPrim)
        /\ preBid' = NoPrim
        /\ deferred' = {}
        /\ UNCHANGED <<wed, csl, p2p, survey, gRadioCaps, mIsRx, mWedTimer, mWakeupChannel>>

\* SubMac::UpdateWakeupListening.  SubMac's own state (mState), which it keeps
\* outside these files, is an input of the handler.
UpdateWakeupListening(aEnable, aChannel, subMacEnabled) ==
    LET t == HandleWedTimer(TRUE, aChannel, radio, gRadioCaps, subMacEnabled)
    IN  /\ mWakeupChannel' = aChannel
        /\ IF aEnable
           THEN /\ mIsRx' = t.mIsRx
                /\ mWedTimer' = TRUE
                /\ radio' = t.radio
                /\ issued' = t.calls
                /\ lastPrim' = LastSleepOrReceive(t.calls, lastPrim)
           ELSE /\ mWedTimer' = FALSE
                /\ issued' = <<>>
                /\ UNCHANGED <<mIsRx, radio, lastPrim>>
        /\ lastOp' = Op("UpdateWakeupListening", kRadioWed, kErrorNone, NoPrim, {})
        /\ answers' = <<>>
        /\ forwarded' = NoEvent
        /\ UNCHANGED <<wed, csl, p2p, survey, mRadios, gRadioCaps, preBid, deferred>>

\* The WED timer fires: SubMac::HandleWedTimer(Timer &).
WedTimerFired(subMacEnabled) ==
    LET t == HandleWedTimer(mIsRx, mWakeupChannel, radio, gRadioCaps, subMacEnabled)
    IN  /\ mWedTimer
        /\ mIsRx' = t.mIsRx
        /\ mWedTimer' = TRUE
        /\ radio' = t.radio
        /\ issued' = t.calls
        /\ lastPrim' = LastSleepOrReceive(t.calls, lastPrim)
        /\ lastOp' = Op("WedTimer", kRadioWed, kErrorNone, NoPrim, {})
        /\ answers' = <<>>
        /\ forwarded' = NoEvent
        /\ UNCHANGED <<wed, csl, p2p, survey, mRadios, gRadioCaps, mWakeupChannel, preBid, deferred>>

Next ==
    \/ \E r \in Roles : Sleep(r)
    \/ \E r \in Roles : \E c \in ChannelsOf(r) : Receive(r, c)
    \/ \E r \in Roles : \E c \in ChannelsOf(r) : \E a \in BOOLEAN : ReceiveAt(r, c, a)
    \/ Enable
    \/ Disable
    \/ Transmit
    \/ \E c \in ChannelsOf(kRadioMac) : EnergyScan(c)
    \/ HandleTransmitDone
    \/ HandleEnergyScanDone
    \/ \E e \in BOOLEAN, c \in ChannelsOf(kRadioWed), s \in BOOLEAN :
           UpdateWakeupListening(e, c, s)
    \/ \E s \in BOOLEAN : WedTimerFired(s)

Spec == Init /\ [][Next]_vars

TypeOK ==
    /\ \A r \in Roles :
          /\ mRadios[r].mState \in {kStateDisabled, kStateEnabled, kStateSleep, kStateReceive,
                                    kStateTransmit, kStateEnergyScan}
          /\ mRadios[r].mCurPriority \in kPriorityMin .. kPriorityMax
          /\ mRadios[r].mChannel \in ChannelsOf(r) \cup {0}
    /\ radio.sState \in {OT_RADIO_STATE_DISABLED, OT_RADIO_STATE_SLEEP, OT_RADIO_STATE_RECEIVE,
                         OT_RADIO_STATE_TRANSMIT}
    /\ radio.sEnergyScanning \in BOOLEAN
    /\ deferred \subseteq {kRadioCsl, kRadioWed}

\* ------------------------------------------------ vocabulary of the claims

\* The calls that run the arbitration (RadioScheduler::ReceiveOrSleep).
ArbitrationOps == {"Sleep", "Receive", "TransmitDone", "EnergyScanDone"}

\* The consumers' requests.
RequestOps == {"Sleep", "Receive"}

\* The driver's completion callbacks.
DoneOps == {"TransmitDone", "EnergyScanDone"}

\* What the last call issued, as one primitive; nothing is NoPrim.
IssuedPrim ==
    IF issued = <<>> THEN NoPrim ELSE Prim(issued[1].op, issued[1].channel)

\* The last call issued exactly this one primitive, through the scheduler.
IssuedExactly(prim) == issued = <<Call(prim.op, prim.channel, kByScheduler)>>

\* Some consumer of the table is in one of the states.
SomeIn(radios, states) == \E r \in Roles : radios[r].mState \in states

\* The consumers holding a Receive bid.
Receivers(radios) == {r \in Roles : radios[r].mState = kStateReceive}

\* ------------------------------------------------------------------ C1

\* C1: whenever a consumer's request has just run the arbitration while some
\* consumer is in Transmit or EnergyScan, the run issued no Sleep and no
\* Receive (it issued nothing), whatever the other consumers bid.
C1_TransmitExclusivity ==
    (lastOp.name \in ArbitrationOps /\ SomeIn(mRadios, {kStateTransmit, kStateEnergyScan}))
        => issued = <<>>

\* C1 happens: Csl asked for Receive while Mac transmits and Wed bids Sleep.
C1_Witness ==
    /\ lastOp.name = "Receive"
    /\ lastOp.role = kRadioCsl
    /\ mRadios[kRadioMac].mState = kStateTransmit
    /\ mRadios[kRadioWed].mState = kStateSleep
    /\ issued = <<>>

\* ------------------------------------------------------------------ C2

C3_DisabledNeverBlocks ==
    ( /\ lastOp.name \in RequestOps
      /\ SomeIn(mRadios, {kStateDisabled})
      /\ \A r \in Roles : mRadios[r].mState \in {kStateDisabled, kStateSleep, kStateReceive} )
        => IssuedExactly(ReferenceBid(mRadios))

\* ------------------------------------------------------------------ C4

\* C4: when two or more consumers hold Receive bids, a Receive the arbitration
\* issues carries the channel of the Receive holder whose role ranks highest
\* (Mac over Csl over Wed), whoever asked last; and when no consumer is
\* Disabled, in Transmit or in EnergyScan, it does issue that Receive.
C4_PriorityOrdering ==
    \A a \in Roles : \A b \in Roles :
        ( /\ lastOp.name \in ArbitrationOps
          /\ a < b
          /\ {a, b} \subseteq Receivers(mRadios)
          /\ \A q \in Receivers(mRadios) : a <= q )
            => /\ \A i \in DOMAIN issued : issued[i].op = "Receive" =>
                      issued[i].channel = mRadios[a].mChannel
               /\ ~SomeIn(mRadios, {kStateDisabled, kStateTransmit, kStateEnergyScan})
                      => IssuedExactly(Prim("Receive", mRadios[a].mChannel))

\* C4 happens: Csl asked for Receive last, Mac holds a Receive bid on another
\* channel, and Mac's channel was issued.
C4_Witness ==
    /\ lastOp.name = "Receive"
    /\ lastOp.role = kRadioCsl
    /\ mRadios[kRadioMac].mState = kStateReceive
    /\ mRadios[kRadioMac].mChannel # mRadios[kRadioCsl].mChannel
    /\ IssuedExactly(Prim("Receive", mRadios[kRadioMac].mChannel))

\* ------------------------------------------------------------------ C5

\* C5: after a completion callback on an enabled radio, the primitive of the
\* consumer that was the top Sleep/Receive bidder when the transmit or scan
\* began (no consumer having made a request since) is issued again, exactly
\* once.
C5_PostCompletionRestoration ==
    ( /\ lastOp.name \in DoneOps
      /\ lastOp.pre # NoPrim
      /\ ~SomeIn(mRadios, {kStateDisabled}) )
        => IssuedExactly(lastOp.pre)

\* ------------------------------------------------------------------ C6

C7_OrderingGuarantee ==
    ( /\ lastOp.name \in {"Sleep", "Receive", "Transmit", "EnergyScan"}
      /\ Bidders(mRadios) # {}
      /\ ~SomeIn(mRadios, {kStateDisabled, kStateTransmit, kStateEnergyScan}) )
        => lastPrim = ReferenceBid(mRadios)

\* ------------------------------------------------------------------ C8

\* C8: every call on the driver is made by the scheduler.
C8_Funneling ==
    \A i \in DOMAIN issued : issued[i].by = kByScheduler

\* ------------------------------------------------------------------ C9

\* C9: a Receive request made while the consumer or the driver is Disabled, or
\* while Mac is in Transmit, returns InvalidState and issues no Receive; any
\* other Receive request returns success.
C9_ReceiveFailsWhenDisabledOrTransmitting ==
    [][ lastOp'.name = "Receive" =>
          IF \/ mRadios[lastOp'.role].mState = kStateDisabled
             \/ radio.sState = OT_RADIO_STATE_DISABLED
             \/ mRadios[kRadioMac].mState = kStateTransmit
          THEN /\ lastOp'.error = kErrorInvalidState
               /\ \A i \in DOMAIN issued' : issued'[i].op # "Receive"
          ELSE lastOp'.error = kErrorNone ]_vars

\* ------------------------------------------------------------------ C10

\* C10: a Sleep request returns success exactly when the consumer is not
\* Disabled.
C10_SleepFailsOnlyWhenDisabled ==
    [][ lastOp'.name = "Sleep" =>
          (lastOp'.error = kErrorNone <=> mRadios[lastOp'.role].mState # kStateDisabled) ]_vars

\* ------------------------------------------------------------------ C11

\* The table after the Mac consumer is put in a state at a priority.
MacPut(radios, aState, aPriority) ==
    [radios EXCEPT ![kRadioMac].mState = aState, ![kRadioMac].mCurPriority = aPriority]

\* C11: a transmit or energy scan call returns the driver's answer; if the
\* driver accepted, the Mac consumer is in Transmit (EnergyScan) at the
\* priority the two share, which is above every Sleep and Receive priority,
\* and nothing else in the table changed; if the driver rejected (a transmit
\* with InvalidState), the table is exactly what it was.
C11_MacChangesOnlyOnAcceptance ==
    [][ /\ lastOp'.name = "Transmit" =>
              /\ Len(answers') = 1
              /\ lastOp'.error = answers'[1]
              /\ answers'[1] \in {kErrorNone, kErrorInvalidState}
              /\ mRadios' = IF answers'[1] = kErrorNone
                            THEN MacPut(mRadios, kStateTransmit, kPriorityTransmit)
                            ELSE mRadios
        /\ lastOp'.name = "EnergyScan" =>
              /\ Len(answers') = 1
              /\ lastOp'.error = answers'[1]
              /\ answers'[1] \in {kErrorNone, kErrorBusy, kErrorNotImplemented}
              /\ mRadios' = IF answers'[1] = kErrorNone
                            THEN MacPut(mRadios, kStateEnergyScan, kPriorityEnergyScan)
                            ELSE mRadios
        /\ kPriorityTransmit = kPriorityEnergyScan
        /\ kPrioritySleep < kPriorityTransmit
        /\ \A r \in Roles : ReceivePriority(r) < kPriorityTransmit ]_vars

\* C11 happens: the driver, asleep, rejected a transmit and the Mac consumer
\* still holds its Sleep bid.
C11_Witness ==
    /\ lastOp.name = "Transmit"
    /\ lastOp.error = kErrorInvalidState
    /\ answers = <<kErrorInvalidState>>
    /\ mRadios[kRadioMac].mState = kStateSleep
    /\ mRadios[kRadioMac].mCurPriority = kPrioritySleep

\* ------------------------------------------------------------------ C12

\* The table after every consumer is put in a state at a priority.
AllPut(radios, aState, aPriority) ==
    [r \in Roles |-> [radios[r] EXCEPT !.mState = aState, !.mCurPriority = aPriority]]

\* What an enable or disable call does to the table: on the driver's success
\* every consumer is Enabled at the minimum priority (Disabled at the maximum
\* priority) with its channel kept, on rejection the table is what it was; and
\* the driver's answer is what the call returns.
EnableDisableEffect ==
    /\ lastOp'.name = "Enable" =>
          /\ Len(answers') = 1
          /\ lastOp'.error = answers'[1]
          /\ mRadios' = IF answers'[1] = kErrorNone
                        THEN AllPut(mRadios, kStateEnabled, kPriorityMin)
                        ELSE mRadios
    /\ lastOp'.name = "Disable" =>
          /\ Len(answers') = 1
          /\ lastOp'.error = answers'[1]
          /\ mRadios' = IF answers'[1] = kErrorNone
                        THEN AllPut(mRadios, kStateDisabled, kPriorityMax)
                        ELSE mRadios

C13_CompletionHandlingOrder ==
    lastOp.name \in DoneOps =>
        /\ forwarded.event = lastOp.name
        /\ forwarded.mac.mState = kStateEnabled
        /\ forwarded.mac.mCurPriority = kPriorityMin
        /\ forwarded.mac = mRadios[kRadioMac]
        /\ forwarded.calls = issued
        /\ \A i \in 1..Len(issued) : issued[i].by = kByScheduler
        /\ (Bidders(mRadios) # {} /\ ~SomeIn(mRadios, {kStateDisabled}))
               => forwarded.calls # <<>>

\* C13 happens: a transmit-done event was handed on after the arbitration gave
\* the radio to the Csl consumer's Receive bid.
C13_Witness ==
    /\ lastOp.name = "TransmitDone"
    /\ forwarded.event = "TransmitDone"
    /\ forwarded.calls # <<>>
    /\ mRadios[kRadioCsl].mState = kStateReceive
    /\ mRadios[kRadioMac].mState = kStateEnabled

\* ------------------------------------------------------------------ C14

\* C14: whenever the driver rejects a Sleep or Receive primitive that the
\* arbitration of a consumer's Sleep or Receive request issued, the request
\* returns that error to its caller.
C14_ErrorPropagation ==
    lastOp.name \in RequestOps =>
        \A i \in 1..Len(answers) :
            answers[i] # kErrorNone => lastOp.error = answers[i]

\* ------------------------------------------------------------------ C15

\* C15: after a successful ReceiveAt of the Csl or Wed consumer, a Sleep or
\* Receive request of another consumer issues no Sleep and no Receive
\* primitive: the armed receive window is not pre-empted.
C15_ReceiveAtWindowKept ==
    [][ ( /\ lastOp.name = "ReceiveAt"
          /\ lastOp.error = kErrorNone
          /\ lastOp'.name \in RequestOps
          /\ lastOp'.role # lastOp.role )
        => \A i \in 1..Len(issued') : issued'[i].op \notin {"Sleep", "Receive"} ]_vars

\* ------------------------------------------------------------------ C16

\* C16: a ReceiveAt request returns Failed whenever the driver rejected the
\* receive window and success only when the driver accepted it: what the
\* caller gets is the driver's answer.
C16_ReceiveAtReturnsDriverAnswer ==
    lastOp.name = "ReceiveAt" =>
        /\ Len(answers) = 1
        /\ answers[1] \in {kErrorNone, kErrorFailed}
        /\ lastOp.error = answers[1]
        /\ issued = <<Call("ReceiveAt", issued[1].channel, kByScheduler)>>

\* C16 happens: the driver rejected a receive window of the Wed consumer and
\* the request returned Failed.
C16_Witness ==
    /\ lastOp.name = "ReceiveAt"
    /\ lastOp.role = kRadioWed
    /\ answers = <<kErrorFailed>>
    /\ lastOp.error = kErrorFailed

\* ------------------------------------------------------------------ C17

\* The consumer the scan of the arbitration stops at; kNumRadios is none.
ScanWinner(radios) == ScanRadios(radios, 0, kNumRadios, kPriorityMin)

\* C17: in every reachable state a Disabled consumer has the maximum priority
\* and an Enabled consumer the minimum priority, and the arbitration never
\* gives the radio to either: an Enabled consumer never wins the scan, and
\* whenever an arbitration issues a primitive the scan's winner holds a Sleep
\* or Receive bid and the primitive is that bid's.
C17_PriorityByState ==
    /\ \A r \in Roles :
          /\ mRadios[r].mState = kStateDisabled => mRadios[r].mCurPriority = kPriorityMax
          /\ mRadios[r].mState = kStateEnabled => mRadios[r].mCurPriority = kPriorityMin
    /\ \A p \in {kPrioritySleep, kPriorityTransmit, kPriorityEnergyScan}
             \cup {ReceivePriority(r) : r \in Roles} :
          kPriorityMin < p /\ p < kPriorityMax
    /\ ScanWinner(mRadios) < kNumRadios =>
          mRadios[ScanWinner(mRadios)].mState # kStateEnabled
    /\ (lastOp.name \in ArbitrationOps /\ issued # <<>>) =>
          /\ ScanWinner(mRadios) < kNumRadios
          /\ mRadios[ScanWinner(mRadios)].mState \in {kStateSleep, kStateReceive}
          /\ IssuedExactly(BidOf(mRadios, ScanWinner(mRadios)))

\* C17 happens: with the Csl consumer Enabled at the minimum priority and no
\* consumer Disabled, the arbitration of Mac's Receive request gave the radio
\* to Mac's bid.
C17_Witness ==
    /\ lastOp.name = "Receive"
    /\ lastOp.role = kRadioMac
    /\ mRadios[kRadioCsl].mState = kStateEnabled
    /\ mRadios[kRadioCsl].mCurPriority = kPriorityMin
    /\ IssuedExactly(BidOf(mRadios, kRadioMac))

\* ------------------------------------------------------------------ C18

\* The consumers in Transmit or EnergyScan.
Operating(radios) ==
    {r \in Roles : radios[r].mState \in {kStateTransmit, kStateEnergyScan}}

\* C18: at most one consumer is in Transmit or EnergyScan, at most one
\* transmit or energy scan is outstanding at the driver, and a completion
\* that leaves an operation outstanding leaves a consumer in Transmit or
\* EnergyScan in the table.
C18_OneOperationOutstanding ==
    /\ Cardinality(Operating(mRadios)) <= 1
    /\ ~(radio.sState = OT_RADIO_STATE_TRANSMIT /\ radio.sEnergyScanning)
    /\ (lastOp.name \in DoneOps
          /\ (radio.sState = OT_RADIO_STATE_TRANSMIT \/ radio.sEnergyScanning))
          => Operating(mRadios) # {}

\* ------------------------------------------------------------------ C19

\* The priority constants of a revision: of the Disabled and Enabled states,
\* of Sleep bids, of each role's Receive bid, of Transmit and EnergyScan, and
\* the remaining constants of the enumeration.

\* RadioInterface::Priority of the radio scheduler.
SchedulerPriorities ==
    [disabled |-> kPriorityMax,
     enabled  |-> kPriorityMin,
     sleep    |-> {kPrioritySleep},
     receive  |-> [r \in Roles |-> ReceivePriority(r)],
     operate  |-> {kPriorityTransmit, kPriorityEnergyScan},
     rest     |-> {kPriorityReceiveMin, kPriorityReceiveMax}]

ManagerPrioritiesWedAboveCsl ==
    [disabled |-> 15,
     enabled  |-> 0,
     sleep    |-> {1},
     receive  |-> (kRadioMac :> 12 @@ kRadioCsl :> 10 @@ kRadioWed :> 11),
     operate  |-> {14},
     rest     |-> {2, 13}]

\* RadioInterface::Priority of the radio manager that has the three roles.
ManagerPriorities ==
    [disabled |-> 15,
     enabled  |-> 0,
     sleep    |-> {1},
     receive  |-> (kRadioMac :> 12 @@ kRadioCsl :> 11 @@ kRadioWed :> 10),
     operate  |-> {14},
     rest     |-> {2, 13}]

\* RadioManager::Priority of the first radio manager, which has the base (Mac)
\* and Csl users only: kPriorityTx = kPriorityRx = 12, kPrioritySleep =
\* kPriorityCslSleep = 4, kPriorityCslRx = 8, kPriorityCslRxAt = 2.
FirstManagerPriorities ==
    [disabled |-> 15,
     enabled  |-> 0,
     sleep    |-> {4},
     receive  |-> (kRadioMac :> 12 @@ kRadioCsl :> 8),
     operate  |-> {12},
     rest     |-> {2}]

PriorityRevisions == {SchedulerPriorities, ManagerPriorities, FirstManagerPriorities}

\* Every priority constant of a revision.
AllPriorities(rev) ==
    {rev.disabled, rev.enabled} \cup rev.sleep \cup rev.operate \cup rev.rest
        \cup {rev.receive[r] : r \in DOMAIN rev.receive}

\* Mac-receive > Csl-receive > Wed-receive, over the roles the revision has.
ReceiveOrdered(rev) ==
    \A r, q \in DOMAIN rev.receive : r < q => rev.receive[r] > rev.receive[q]

\* In the table, Receive bids are ordered by role.
ReceiveBidsOrdered ==
    \A r, q \in Receivers(mRadios) :
        r < q => mRadios[r].mCurPriority > mRadios[q].mCurPriority

\* C19 as stated: in every revision Mac-receive > Csl-receive > Wed-receive,
\* the Transmit and EnergyScan priorities are above every other priority, and
\* the Sleep priority is above the Disabled priority; so in the table a
\* consumer in Transmit or EnergyScan outranks every other consumer and a
\* sleeping consumer outranks a Disabled one.
C19_RelativeOrderingAboveAll ==
    /\ \A rev \in PriorityRevisions :
          /\ ReceiveOrdered(rev)
          /\ \A t \in rev.operate : \A p \in AllPriorities(rev) \ rev.operate : t > p
          /\ \A s \in rev.sleep : s > rev.disabled
    /\ ReceiveBidsOrdered
    /\ \A r \in Operating(mRadios) : \A q \in Roles \ {r} :
          mRadios[r].mCurPriority > mRadios[q].mCurPriority
    /\ \A r, q \in Roles :
          (mRadios[r].mState = kStateSleep /\ mRadios[q].mState = kStateDisabled)
              => mRadios[r].mCurPriority > mRadios[q].mCurPriority

\* C19 amended: in every revision Mac-receive > Csl-receive > Wed-receive; the
\* Transmit and EnergyScan priorities are above the Sleep and Enabled
\* priorities and every other role's Receive priority, not below any Receive
\* priority, and below only the Disabled priority; the Sleep priority is above
\* the Enabled priority and below the Disabled priority, which is the maximum.
C19_RelativeOrdering ==
    /\ \A rev \in PriorityRevisions :
          /\ ReceiveOrdered(rev)
          /\ \A t \in rev.operate :
                /\ \A p \in rev.sleep \cup {rev.enabled} : t > p
                /\ \A r \in DOMAIN rev.receive :
                      t >= rev.receive[r] /\ (r # kRadioMac => t > rev.receive[r])
                /\ \A p \in AllPriorities(rev) : p > t => p = rev.disabled
                /\ t < rev.disabled
          /\ \A s \in rev.sleep : rev.enabled < s /\ s < rev.disabled
          /\ \A p \in AllPriorities(rev) : p <= rev.disabled
    /\ ReceiveBidsOrdered
    /\ \A r \in Operating(mRadios) : \A q \in Roles \ {r} :
          mRadios[q].mState # kStateDisabled
              => mRadios[r].mCurPriority > mRadios[q].mCurPriority
    /\ \A r, q \in Roles :
          (mRadios[r].mState = kStateSleep /\ mRadios[q].mState = kStateDisabled)
              => mRadios[r].mCurPriority < mRadios[q].mCurPriority

\* C19 happens: the Csl and Wed consumers hold Receive bids, in that order of
\* priority, below the Mac consumer that is transmitting.
C19_Witness ==
    /\ mRadios[kRadioMac].mState = kStateTransmit
    /\ mRadios[kRadioCsl].mState = kStateReceive
    /\ mRadios[kRadioWed].mState = kStateReceive
    /\ mRadios[kRadioMac].mCurPriority > mRadios[kRadioCsl].mCurPriority
    /\ mRadios[kRadioCsl].mCurPriority > mRadios[kRadioWed].mCurPriority

\* ------------------------------------------------------------------ C20

\* C20: a Sleep or Receive request of a consumer changes that consumer's own
\* entry only: Sleep sets its state and priority and keeps its channel,
\* Receive sets its state, its role's Receive priority and the channel asked
\* for; every other consumer's state, priority and channel are what they were.
C20_RequestFrame ==
    [][ lastOp'.name \in RequestOps =>
          /\ \A q \in Roles \ {lastOp'.role} : mRadios'[q] = mRadios[q]
          /\ lastOp'.name = "Sleep" =>
                mRadios'[lastOp'.role] =
                    [mState |-> kStateSleep, mCurPriority |-> kPrioritySleep,
                     mChannel |-> mRadios[lastOp'.role].mChannel]
          /\ lastOp'.name = "Receive" =>
                /\ mRadios'[lastOp'.role].mState = kStateReceive
                /\ mRadios'[lastOp'.role].mCurPriority = ReceivePriority(lastOp'.role)
                /\ mRadios'[lastOp'.role].mChannel \in ChannelsOf(lastOp'.role) ]_vars

\* C20 happens: the Csl consumer asked for Sleep after a Receive on its
\* channel, which its entry still records, while the Mac consumer holds a
\* Receive bid.
C20_Witness ==
    /\ lastOp.name = "Sleep"
    /\ lastOp.role = kRadioCsl
    /\ mRadios[kRadioCsl].mState = kStateSleep
    /\ mRadios[kRadioCsl].mChannel \in ChannelsOf(kRadioCsl)
    /\ mRadios[kRadioMac].mState = kStateReceive

\* ------------------------------------------------------------------ C21

\* What the arbitration issues for a table, by the table alone: the bid of the
\* scan's winner if it holds one, nothing otherwise.
WinnerCalls(radios) ==
    IF ScanWinner(radios) < kNumRadios
          /\ radios[ScanWinner(radios)].mState \in {kStateSleep, kStateReceive}
    THEN LET bid == BidOf(radios, ScanWinner(radios))
         IN  <<Call(bid.op, bid.channel, kByScheduler)>>
    ELSE <<>>

\* C21: the arbitration is a function of the consumer table.  The table after
\* a request or a completion is the table before it with the handler's own
\* write and nothing else; what the run issued is what the table alone
\* determines; and a second run on the table it leaves, with the driver as it
\* was before or as it is after, issues the same primitive.
C21_ArbitrationIsPure ==
    [][ lastOp'.name \in ArbitrationOps =>
          /\ lastOp'.name = "Sleep" =>
                mRadios' = SetStateAndPriority(mRadios, lastOp'.role,
                                               kStateSleep, kPrioritySleep)
          /\ lastOp'.name = "Receive" =>
                mRadios' = SetChannel(SetStateAndPriority(mRadios, lastOp'.role, kStateReceive,
                                                          ReceivePriority(lastOp'.role)),
                                      lastOp'.role, mRadios'[lastOp'.role].mChannel)
          /\ lastOp'.name \in DoneOps =>
                mRadios' = MacPut(mRadios, kStateEnabled, kPriorityMin)
          /\ issued' = WinnerCalls(mRadios')
          /\ ReceiveOrSleep(mRadios', radio).calls = issued'
          /\ ReceiveOrSleep(mRadios', radio').calls = issued' ]_vars

\* C21 happens: the arbitration of a Sleep request by the Wed consumer issued
\* the Receive of the Csl consumer's standing bid once more, the driver being
\* in Receive already.
C21_Witness ==
    /\ lastOp.name = "Sleep"
    /\ lastOp.role = kRadioWed
    /\ mRadios[kRadioCsl].mState = kStateReceive
    /\ ScanWinner(mRadios) = kRadioCsl
    /\ issued = WinnerCalls(mRadios)
    /\ issued # <<>>
    /\ lastPrim = BidOf(mRadios, kRadioCsl)
    /\ radio.sState = OT_RADIO_STATE_RECEIVE

\* ================================================== SubMac's WED timing
\*
\* The WED sampler with its times: the fields SubMac::UpdateWakeupListening
\* and the two strategies of SubMac::HandleWedTimer read and write, the
\* microsecond clock, the radio's clock and the alarm of mWedTimer.  The
\* scheduler is left as constructed in these behaviours.

\* The number of firings of the WED timer the behaviours follow.
MaxWedFirings == 6

\* The width of the microsecond values handed to the radio (uint32_t in the
\* code), scaled down.
ClockBits == 20

ClockModulus == 2 ^ ClockBits

\* The guard margins, whose values are set outside these files; small values
\* of the same signs stand for them.
kCslReceiveTimeAhead == 2
kWedReceiveTimeAfter == 1
kMinReceiveOnAhead == 1
kMinReceiveOnAfter == 1

\* The listen intervals and durations the MAC layer asks for (no check is made
\* of them: a duration may leave less of the interval than the guard margins
\* take, or be longer than the interval), the times at which it first does so,
\* and how far the radio's clock is ahead of the microsecond clock.
WedIntervals == {6, 8}
WedDurations == {2, 7}
StartTimes == {10, 13}
RadioClockOffsets == {0, 7}

\* A call on the driver with its time arguments.
TimedCall(op, channel, start, duration) ==
    [op |-> op, channel |-> channel, start |-> start, duration |-> duration]

\* SubMac::WedInit, at a time of the microsecond clock, with the radio's clock
\* ahead by an offset.
WedInit(now, offset) ==
    [last |-> "WedInit",
     mWakeupListenInterval |-> 0, mWakeupListenDuration |-> 0, mWakeupChannel |-> 0,
     mIsRx |-> FALSE, mWedSampleTime |-> 0, mWedSampleTimeRadio |-> 0,
     running |-> FALSE, fireAt |-> 0,
     now |-> now, offset |-> offset,
     calls |-> <<>>, enabled |-> FALSE, phase |-> "None", firings |-> 0, ticks |-> 0,
     pre |-> [mWedSampleTime |-> 0, mWedSampleTimeRadio |-> 0, fireAt |-> 0, running |-> FALSE],
     base |-> [mWedSampleTime |-> 0, mWedSampleTimeRadio |-> 0]]

HandleReceiveAtTimedAdvancingRadioClockOnly(w, subMacEnabled) ==
    LET sampleTime      == w.mWedSampleTime
        sampleTimeRadio == w.mWedSampleTimeRadio + w.mWakeupListenInterval
    IN  [w EXCEPT
           !.mWedSampleTime = sampleTime,
           !.mWedSampleTimeRadio = sampleTimeRadio,
           !.running = TRUE,
           !.fireAt = sampleTime + w.mWakeupListenDuration + kWedReceiveTimeAfter,
           !.calls = IF subMacEnabled
                     THEN <<TimedCall("ReceiveAt", w.mWakeupChannel,
                                      sampleTimeRadio % ClockModulus, w.mWakeupListenDuration)>>
                     ELSE <<>>]

\* SubMac::HandleReceiveAt, with its times: both sample times advance by the
\* listen interval, the timer is set to fire after the window, and unless
\* SubMac is disabled the driver is asked for a receive window at the radio
\* clock's sample time (cast to 32 bits).
HandleReceiveAtTimed(w, subMacEnabled) ==
    LET sampleTime      == w.mWedSampleTime + w.mWakeupListenInterval
        sampleTimeRadio == w.mWedSampleTimeRadio + w.mWakeupListenInterval
    IN  [w EXCEPT
           !.mWedSampleTime = sampleTime,
           !.mWedSampleTimeRadio = sampleTimeRadio,
           !.running = TRUE,
           !.fireAt = sampleTime + w.mWakeupListenDuration + kWedReceiveTimeAfter,
           !.calls = IF subMacEnabled
                     THEN <<TimedCall("ReceiveAt", w.mWakeupChannel,
                                      sampleTimeRadio % ClockModulus, w.mWakeupListenDuration)>>
                     ELSE <<>>]

HandleReceiveAndSleepTimedSleepingWholeInterval(w, subMacEnabled) ==
    LET interval   == IF w.mIsRx THEN w.mWakeupListenDuration ELSE w.mWakeupListenInterval
        delay      == IF w.mIsRx THEN kMinReceiveOnAfter ELSE 0 - kMinReceiveOnAhead
        sampleTime == w.mWedSampleTime + interval
    IN  [w EXCEPT
           !.mWedSampleTime = sampleTime,
           !.running = TRUE,
           !.fireAt = sampleTime + delay,
           !.calls = IF subMacEnabled /\ w.mIsRx
                     THEN <<TimedCall("Receive", w.mWakeupChannel, 0, 0)>>
                     ELSE <<>>,
           !.mIsRx = ~w.mIsRx]

\* SubMac::HandleReceiveAndSleep, with its times: the sample time advances by
\* the listen duration in the receiving phase and by the rest of the interval
\* (a uint32_t difference) in the sleeping phase, the timer is set to fire
\* after the window or ahead of the next one, in the receiving phase the driver
\* is put in Receive unless SubMac is disabled, in the sleeping phase no call
\* is made (the Sleep call is commented out), and the phase flips.
HandleReceiveAndSleepTimed(w, subMacEnabled) ==
    LET interval   == IF w.mIsRx
                      THEN w.mWakeupListenDuration
                      ELSE (w.mWakeupListenInterval - w.mWakeupListenDuration) % ClockModulus
        delay      == IF w.mIsRx THEN kMinReceiveOnAfter ELSE 0 - kMinReceiveOnAhead
        sampleTime == w.mWedSampleTime + interval
    IN  [w EXCEPT
           !.mWedSampleTime = sampleTime,
           !.running = TRUE,
           !.fireAt = sampleTime + delay,
           !.calls = IF subMacEnabled /\ w.mIsRx
                     THEN <<TimedCall("Receive", w.mWakeupChannel, 0, 0)>>
                     ELSE <<>>,
           !.mIsRx = ~w.mIsRx]

\* SubMac::HandleWedTimer, with its times.
HandleWedTimerTimed(w, caps, subMacEnabled) ==
    IF OT_RADIO_CAPS_RECEIVE_TIMING \in caps
    THEN HandleReceiveAtTimed(w, subMacEnabled)
    ELSE HandleReceiveAndSleepTimed(w, subMacEnabled)

UpdateWakeupListeningNotStopping(w, aEnable, aInterval, aDuration, aChannel, caps, subMacEnabled) ==
    LET w1 == [w EXCEPT !.mWakeupListenInterval = aInterval,
                        !.mWakeupListenDuration = aDuration,
                        !.mWakeupChannel = aChannel,
                        !.calls = <<>>]
        w2 == [w1 EXCEPT
                 !.mIsRx = TRUE,
                 !.mWedSampleTime = w.now + kCslReceiveTimeAhead - aInterval,
                 !.mWedSampleTimeRadio = w.now + w.offset + kCslReceiveTimeAhead - aInterval]
    IN  IF aEnable THEN HandleWedTimerTimed(w2, caps, subMacEnabled) ELSE w1

\* SubMac::UpdateWakeupListening, with its times: the fields are set and the
\* timer stopped; on enable the phase is receiving, the two sample times are
\* put one interval before the first sample point of each clock, and
\* HandleWedTimer runs at once.
UpdateWakeupListeningTimed(w, aEnable, aInterval, aDuration, aChannel, caps, subMacEnabled) ==
    LET w1 == [w EXCEPT !.mWakeupListenInterval = aInterval,
                        !.mWakeupListenDuration = aDuration,
                        !.mWakeupChannel = aChannel,
                        !.running = FALSE,
                        !.calls = <<>>]
        w2 == [w1 EXCEPT
                 !.mIsRx = TRUE,
                 !.mWedSampleTime = w.now + kCslReceiveTimeAhead - aInterval,
                 !.mWedSampleTimeRadio = w.now + w.offset + kCslReceiveTimeAhead - aInterval]
    IN  IF aEnable THEN HandleWedTimerTimed(w2, caps, subMacEnabled) ELSE w1

\* What a step records beside the handler's result: the step, SubMac's state
\* and the phase it ran in, and the times before it.
Recorded(w, before, last, subMacEnabled, phase) ==
    [w EXCEPT !.last = last,
              !.enabled = subMacEnabled,
              !.phase = phase,
              !.pre = [mWedSampleTime |-> before.mWedSampleTime,
                       mWedSampleTimeRadio |-> before.mWedSampleTimeRadio,
                       fireAt |-> before.fireAt,
                       running |-> before.running]]

\* The phase a firing runs in.
PhaseOf(isRx, caps) ==
    IF OT_RADIO_CAPS_RECEIVE_TIMING \in caps THEN "scheduled"
    ELSE IF isRx THEN "receiving" ELSE "sleeping"

\* The MAC layer starts wake-up listening: UpdateWakeupListening(true, ...).
WedStart(aInterval, aDuration, subMacEnabled) ==
    LET aChannel == CHOOSE c \in ChannelsOf(kRadioWed) : TRUE
        w == UpdateWakeupListeningTimed(wed, TRUE, aInterval, aDuration, aChannel,
                                        gRadioCaps, subMacEnabled)
        r == Recorded(w, wed, "Start", subMacEnabled, PhaseOf(TRUE, gRadioCaps))
    IN  /\ wed.now >= aInterval
        /\ wed' = [r EXCEPT
                     !.ticks = 0,
                     !.base = [mWedSampleTime |-> wed.now + kCslReceiveTimeAhead - aInterval,
                               mWedSampleTimeRadio |->
                                   wed.now + wed.offset + kCslReceiveTimeAhead - aInterval]]
        /\ UNCHANGED <<schedulerVars, gRadioCaps, csl, p2p, survey>>

\* The MAC layer stops wake-up listening: UpdateWakeupListening(false, ...).
WedStop(aInterval, aDuration) ==
    LET aChannel == CHOOSE c \in ChannelsOf(kRadioWed) : TRUE
        w == UpdateWakeupListeningTimed(wed, FALSE, aInterval, aDuration, aChannel,
                                        gRadioCaps, TRUE)
    IN  /\ wed' = Recorded(w, wed, "Stop", wed.enabled, "None")
        /\ UNCHANGED <<schedulerVars, gRadioCaps, csl, p2p, survey>>

\* The alarm of mWedTimer fires, at its time or at once if that is past:
\* SubMac::HandleWedTimer(Timer &).
WedAlarm(subMacEnabled) ==
    LET at == IF wed.fireAt > wed.now THEN wed.fireAt ELSE wed.now
        w  == HandleWedTimerTimed([wed EXCEPT !.now = at], gRadioCaps, subMacEnabled)
        r  == Recorded(w, wed, "Alarm", subMacEnabled, PhaseOf(wed.mIsRx, gRadioCaps))
    IN  /\ wed.running
        /\ wed.firings < MaxWedFirings
        /\ wed' = [r EXCEPT !.firings = wed.firings + 1, !.ticks = wed.ticks + 1]
        /\ UNCHANGED <<schedulerVars, gRadioCaps, csl, p2p, survey>>

WedSpecInit ==
    /\ SchedulerInit
    /\ gRadioCaps \in {NoCaps, HardwareCaps}
    /\ wed \in {WedInit(now, offset) : now \in StartTimes, offset \in RadioClockOffsets}
    /\ csl = NoTiming
    /\ p2p = NoTiming
    /\ survey = NoTiming

WedNext ==
    \/ \E i \in WedIntervals, d \in WedDurations, s \in BOOLEAN : WedStart(i, d, s)
    \/ \E i \in WedIntervals, d \in WedDurations : WedStop(i, d)
    \/ \E s \in BOOLEAN : WedAlarm(s)

WedSpec == WedSpecInit /\ [][WedNext]_vars

\* ------------------------------------------------------------------ C22

\* C22: in the hardware-scheduled strategy every run of the timer handler
\* while SubMac is enabled issues exactly one driver call, a ReceiveAt on the
\* wake-up channel at the radio clock's next sample time for the listen
\* duration, and no Sleep and no Receive; every run re-arms the timer, and
\* each firing sets the next alarm exactly one listen interval after the one
\* that fired, one sample point further on each clock.
C22_HardwareScheduledStrategy ==
    (wed.last \in {"Start", "Alarm"} /\ wed.phase = "scheduled") =>
        /\ wed.calls = IF wed.enabled
                       THEN <<TimedCall("ReceiveAt", wed.mWakeupChannel,
                                        wed.mWedSampleTimeRadio % ClockModulus,
                                        wed.mWakeupListenDuration)>>
                       ELSE <<>>
        /\ \A i \in 1..Len(wed.calls) : wed.calls[i].op \notin {"Sleep", "Receive"}
        /\ wed.running
        /\ wed.fireAt = wed.mWedSampleTime + wed.mWakeupListenDuration + kWedReceiveTimeAfter
        /\ wed.last = "Alarm" =>
              /\ wed.pre.running
              /\ wed.now = wed.pre.fireAt
              /\ wed.fireAt - wed.pre.fireAt = wed.mWakeupListenInterval
              /\ wed.mWedSampleTimeRadio - wed.pre.mWedSampleTimeRadio
                     = wed.mWakeupListenInterval

\* C22 happens: the third firing of the hardware-scheduled strategy asked the
\* driver for its receive window.
C22_Witness ==
    /\ wed.last = "Alarm"
    /\ wed.phase = "scheduled"
    /\ wed.enabled
    /\ wed.ticks = 3
    /\ Len(wed.calls) = 1
    /\ wed.calls[1].op = "ReceiveAt"

\* ------------------------------------------------------------------ C23

\* The two sample times are as far apart as the start of listening put them.
InLockStep ==
    wed.mWedSampleTime - wed.mWedSampleTimeRadio
        = wed.base.mWedSampleTime - wed.base.mWedSampleTimeRadio

\* Both sample times are one listen interval further for each run of the
\* handler since listening started.
BothAdvancedByInterval ==
    /\ wed.mWedSampleTime
           = wed.base.mWedSampleTime + (wed.ticks + 1) * wed.mWakeupListenInterval
    /\ wed.mWedSampleTimeRadio
           = wed.base.mWedSampleTimeRadio + (wed.ticks + 1) * wed.mWakeupListenInterval

\* C23 as stated: on every tick, of either strategy, both sample times are
\* advanced by exactly the listen interval, so their difference stays what it
\* was when listening started.
C23_LockStepOnEveryTick ==
    wed.last \in {"Start", "Alarm"} => (BothAdvancedByInterval /\ InLockStep)

\* C23 amended: on every tick of the hardware-scheduled strategy both sample
\* times are advanced by exactly the listen interval, so their difference
\* stays what it was when listening started; on a tick of the toggle strategy
\* only the microsecond clock's sample time is advanced, by the listen
\* duration in the receiving phase and by the rest of the interval (a uint32_t
\* difference) in the sleeping phase, and the radio clock's sample time stays
\* where the start put it.
C23_LockStepWhenScheduled ==
    wed.last \in {"Start", "Alarm"} =>
        /\ wed.phase = "scheduled" => (BothAdvancedByInterval /\ InLockStep)
        /\ wed.phase # "scheduled" =>
              /\ wed.mWedSampleTimeRadio = wed.base.mWedSampleTimeRadio
              /\ wed.phase = "receiving" =>
                    wed.mWedSampleTime
                        = (IF wed.last = "Start" THEN wed.base.mWedSampleTime
                                                 ELSE wed.pre.mWedSampleTime)
                          + wed.mWakeupListenDuration
              /\ wed.phase = "sleeping" =>
                    wed.mWedSampleTime
                        = wed.pre.mWedSampleTime
                          + ((wed.mWakeupListenInterval - wed.mWakeupListenDuration)
                                 % ClockModulus)

\* C23 happens: after three firings of the hardware-scheduled strategy, with
\* the radio's clock ahead of the microsecond clock, the two sample times are
\* as far apart as at the start.
C23_Witness ==
    /\ wed.last = "Alarm"
    /\ wed.phase = "scheduled"
    /\ wed.ticks = 3
    /\ wed.offset # 0
    /\ wed.mWedSampleTimeRadio - wed.mWedSampleTime = wed.offset
    /\ InLockStep

\* ------------------------------------------------------------------ C24

\* C24: in the toggle strategy, while SubMac is enabled, every run in the
\* receiving phase puts the radio in Receive on the wake-up channel and every
\* run in the sleeping phase asks for Sleep, through the driver or through the
\* Wed consumer.
C24_ToggleSleepsAfterWindow ==
    (wed.last \in {"Start", "Alarm"} /\ wed.enabled) =>
        /\ wed.phase = "receiving" =>
              wed.calls = <<TimedCall("Receive", wed.mWakeupChannel, 0, 0)>>
        /\ wed.phase = "sleeping" =>
              \/ \E i \in 1..Len(wed.calls) : wed.calls[i].op = "Sleep"
              \/ mRadios[kRadioWed].mState = kStateSleep

\* ------------------------------------------------------------------ C25

\* C25: in the toggle strategy, for a listen interval longer than the listen
\* duration, which is positive, a receiving run and the sleeping run after it
\* advance the sample time by exactly one interval together: after the
\* sleeping run that ends the n-th cycle the sample time is n intervals past
\* where the start put it, and after the receiving run of the next cycle one
\* duration more.
C25_ToggleWindowCoverage ==
    ( /\ wed.last \in {"Start", "Alarm"}
      /\ wed.phase \in {"receiving", "sleeping"}
      /\ wed.mWakeupListenInterval > wed.mWakeupListenDuration
      /\ wed.mWakeupListenDuration > 0 )
    => /\ wed.phase = "sleeping" =>
             /\ (wed.ticks + 1) % 2 = 0
             /\ wed.mWedSampleTime
                    = wed.base.mWedSampleTime
                      + ((wed.ticks + 1) \div 2) * wed.mWakeupListenInterval
       /\ wed.phase = "receiving" =>
             /\ wed.ticks % 2 = 0
             /\ wed.mWedSampleTime
                    = wed.base.mWedSampleTime
                      + (wed.ticks \div 2) * wed.mWakeupListenInterval
                      + wed.mWakeupListenDuration

\* C25 happens: the sleeping run that ends the third cycle of the toggle
\* strategy leaves the sample time three intervals on.
C25_Witness ==
    /\ wed.last = "Alarm"
    /\ wed.phase = "sleeping"
    /\ wed.ticks = 5
    /\ wed.mWedSampleTime = wed.base.mWedSampleTime + 3 * wed.mWakeupListenInterval

\* ------------------------------------------------------------------ C26

\* C26: stopping wake-up listening stops the timer and makes no driver call;
\* the timer handler runs only when the timer is armed, so after the stop no
\* firing and no driver call happens until listening is started again; and
\* every run of the handler, at a start or at a firing, leaves the timer armed
\* with one alarm, set from the sample time it has just advanced.
C26_AlarmCancellation ==
    [][ /\ wed'.last = "Stop" => (~wed'.running /\ wed'.calls = <<>>)
        /\ wed'.last = "Alarm" => (wed.running /\ wed'.running)
        /\ wed'.last = "Start" => wed'.running
        /\ wed'.last \in {"Start", "Alarm"} =>
              wed'.fireAt \in {wed'.mWedSampleTime + wed'.mWakeupListenDuration
                                   + kWedReceiveTimeAfter,
                               wed'.mWedSampleTime + kMinReceiveOnAfter,
                               wed'.mWedSampleTime - kMinReceiveOnAhead}
        /\ (wed.last \in {"WedInit", "Stop"} /\ wed' # wed) =>
              /\ ~wed.running
              /\ wed'.last \in {"Start", "Stop"} ]_vars

\* C26 happens: listening was stopped while the timer was armed, after it had
\* fired; the timer is stopped.
C26_Witness ==
    /\ wed.last = "Stop"
    /\ wed.pre.running
    /\ wed.ticks >= 1
    /\ ~wed.running
    /\ wed.calls = <<>>

\* ------------------------------------------------------------------ C27

\* C27: when wake-up listening has just been switched off, the Wed consumer
\* holds no Sleep or Receive bid any more.
C27_DisabledFeatureHoldsNoBid ==
    (lastOp.name = "UpdateWakeupListening" /\ ~mWedTimer) =>
        kRadioWed \notin Bidders(mRadios)

\* ================================================== SubMac's CSL phase
\*
\* SubMac::GetCslPhase and its callers, with the microsecond clock.  A true
\* time is a number of microseconds since start; what the code reads of the
\* clock and what it keeps in mCslSampleTime are true times modulo the clock's
\* width.  The scheduler is left as constructed in these behaviours.

\* Microseconds per ten symbols.
OT_US_PER_TEN_SYMBOLS == 160

\* uint16_t.
Uint16Modulus == 2 ^ 16

\* The CSL periods considered, in ten-symbol units (0: CSL off), and the true
\* times considered for the clock and for the sample point: around 0, around
\* one period of the longest of them, and around the wrap of the clock.
CslPeriods == {0, 1, 3, 3125}
TrueTimes ==
    {0, 1, 159, 160, 161, 479, 480, 499999, 500000, 500001,
     ClockModulus - 1, ClockModulus, ClockModulus + 1, ClockModulus + 160,
     ClockModulus + 500000}

GetCslPhaseWithoutFinalModulo(curTime, mCslPeriod, mCslSampleTime) ==
    LET cslPeriodInUs == mCslPeriod * OT_US_PER_TEN_SYMBOLS
        diff          == cslPeriodInUs - (curTime % cslPeriodInUs)
                             + (mCslSampleTime % cslPeriodInUs)
    IN  (diff \div OT_US_PER_TEN_SYMBOLS + 1) % Uint16Modulus

\* SubMac::GetCslPhase for a clock reading, a period (> 0; the product with
\* 160 of a uint16_t fits 32 bits, as do the sums) and a sample time.
GetCslPhase(curTime, mCslPeriod, mCslSampleTime) ==
    LET cslPeriodInUs == mCslPeriod * OT_US_PER_TEN_SYMBOLS
        diff          == (cslPeriodInUs - (curTime % cslPeriodInUs)
                              + (mCslSampleTime % cslPeriodInUs)) % cslPeriodInUs
    IN  (diff \div OT_US_PER_TEN_SYMBOLS + 1) % Uint16Modulus

\* What the clock reads at a true time.
otPlatAlarmMicroGetNow(trueTime) == trueTime % ClockModulus

\* Before CSL is configured.
CslInit ==
    [last |-> "CslInit", mCslPeriod |-> 0, mCslSampleTime |-> 0, sampleTrue |-> 0,
     nowTrue |-> 0, curTime |-> 0, written |-> FALSE, phase |-> 0]

\* The CSL period and the sample time are set: a sample point at a true time
\* is kept as the clock's value then.
CslSetSample(aPeriod, aSampleTrue) ==
    /\ csl' = [csl EXCEPT !.last = "SetSample",
                          !.mCslPeriod = aPeriod,
                          !.sampleTrue = aSampleTrue,
                          !.mCslSampleTime = aSampleTrue % ClockModulus,
                          !.written = FALSE,
                          !.phase = 0]
    /\ UNCHANGED <<schedulerVars, gRadioCaps, wed, p2p, survey>>

\* Time passes.
CslClock(aTrueTime) ==
    /\ aTrueTime > csl.nowTrue
    /\ csl' = [csl EXCEPT !.last = "Clock", !.nowTrue = aTrueTime, !.written = FALSE,
                          !.phase = 0]
    /\ UNCHANGED <<schedulerVars, gRadioCaps, wed, p2p, survey>>

\* SubMac::UpdateCslIe for the CSL peer (as SubMac::UpdateDataIe for a frame
\* that is not a retransmission): with a period set, the IE gets the period
\* and the phase computed now; without, nothing is written.
UpdateCslIe ==
    LET curTime == otPlatAlarmMicroGetNow(csl.nowTrue)
    IN  /\ csl' = IF csl.mCslPeriod > 0
                  THEN [csl EXCEPT
                          !.last = "UpdateCslIe",
                          !.curTime = curTime,
                          !.written = TRUE,
                          !.phase = GetCslPhase(curTime, csl.mCslPeriod, csl.mCslSampleTime)]
                  ELSE [csl EXCEPT !.last = "UpdateCslIe", !.curTime = curTime,
                                   !.written = FALSE, !.phase = 0]
        /\ UNCHANGED <<schedulerVars, gRadioCaps, wed, p2p, survey>>

CslSpecInit ==
    /\ SchedulerInit
    /\ gRadioCaps = NoCaps
    /\ wed = NoTiming
    /\ csl = CslInit
    /\ p2p = NoTiming
    /\ survey = NoTiming

CslNext ==
    \/ \E p \in CslPeriods, t \in TrueTimes : CslSetSample(p, t)
    \/ \E t \in TrueTimes : CslClock(t)
    \/ UpdateCslIe

CslSpec == CslSpecInit /\ [][CslNext]_vars

\* ------------------------------------------------------------------ C28

\* C28: a phase written to a CSL IE is at least 1 and at most the CSL period
\* in ten-symbol units, whatever the clock reads and whatever the sample time
\* is.
C28_CslPhaseValid ==
    (csl.last = "UpdateCslIe" /\ csl.written) =>
        /\ csl.mCslPeriod > 0
        /\ 1 <= csl.phase
        /\ csl.phase <= csl.mCslPeriod
        /\ csl.phase <= (csl.mCslPeriod * OT_US_PER_TEN_SYMBOLS) \div OT_US_PER_TEN_SYMBOLS

\* C28 happens: one microsecond after the sample point the phase is the whole
\* period, its largest value.
C28_Witness ==
    /\ csl.last = "UpdateCslIe"
    /\ csl.written
    /\ csl.mCslPeriod = 3
    /\ csl.nowTrue = csl.sampleTrue + 1
    /\ csl.phase = csl.mCslPeriod

\* ------------------------------------------------------------------ C29

\* The time from now to the earliest sample point, at the sample time or a
\* whole number of periods away from it, that is not before now.
TimeToNextSample ==
    (csl.sampleTrue - csl.nowTrue) % (csl.mCslPeriod * OT_US_PER_TEN_SYMBOLS)

\* C29: a phase written to a CSL IE is the number of whole ten-symbol units
\* from now to the next sample point, plus one, whether the sample time lies
\* ahead of or behind now and whether or not the clock has wrapped since the
\* sample time was kept.
C29_CslPhaseMeaning ==
    (csl.last = "UpdateCslIe" /\ csl.written) =>
        csl.phase = TimeToNextSample \div OT_US_PER_TEN_SYMBOLS + 1

\* ------------------------------------------------------------------ C30

\* The scenario: a period of 500000 us, the clock reading 0, the sample time
\* 500000.
CslScenario ==
    /\ csl.last = "UpdateCslIe"
    /\ csl.written
    /\ csl.mCslPeriod * OT_US_PER_TEN_SYMBOLS = 500000
    /\ csl.curTime = 0
    /\ csl.nowTrue = 0
    /\ csl.mCslSampleTime = 500000

\* C30 as stated: in the scenario the phase is 500000/160 + 1 = 3126.
C30_ScenarioPhaseOnePeriodAway ==
    CslScenario => csl.phase = 500000 \div OT_US_PER_TEN_SYMBOLS + 1

\* C30 amended: in the scenario the sample time is a whole period from now,
\* so now is itself a sample point and the phase is 0/160 + 1 = 1.
C30_ScenarioPhase ==
    CslScenario => csl.phase = 0 \div OT_US_PER_TEN_SYMBOLS + 1

\* C30 happens: the scenario's IE was written, with phase 1.
C30_Witness == CslScenario /\ csl.phase = 1

\* ================================================================== P2P
\* Mle's peer-to-peer links (mle_peer.cpp): the connect and disconnect
\* requests, the timer, and the handlers of the Link Request, Link Accept And
\* Request, Link Accept and Link Tear Down messages, on one device.  The
\* messages come from the environment, which may lose, repeat, reorder and
\* forge them.

kErrorInvalidArgs == "InvalidArgs"
kErrorNotFound == "NotFound"
kErrorNoBufs == "NoBufs"
kErrorParse == "Parse"

kP2pIdle == "Idle"
kP2pAttaching == "Attaching"
kP2pDetaching == "Detaching"

kStateInvalid == "Invalid"
kStateLinkRequest == "LinkRequest"
kStateValid == "Valid"

\* The extended addresses of the peers, and no peer (nullptr).
Addrs == {1, 2}
NoPeer == 0

\* The number of challenges a device generates for a peer, and of connect
\* requests it accepts, in a behaviour.
MaxChallenges == 1
MaxConnects == 2

\* Time::kOneMsecInUsec.
kOneMsecInUsec == 1000

\* The wake-up intervals (microseconds) and durations (milliseconds) requested.
ConnectIntervals == {0, 500, 2000}
ConnectDurations == {0, 1}

\* The content of a challenge that was never generated: what the storage of
\* the child entry holds.
NoChallenge == 0

\* Mle's peer-to-peer fields after construction, with the history of what
\* was sent, delivered and called back.
P2pInit ==
    [last |-> "Init", result |-> kErrorNone,
     mP2pState |-> kP2pIdle,
     timer |-> FALSE,                \* mP2pTimer is running
     callback |-> 0,                 \* mP2pConnectedCallback: the request that set it, 0 unset
     mP2pPeer |-> NoPeer,
     peers |-> [a \in Addrs |->
                  [state |-> kStateInvalid,
                   challenge |-> NoChallenge,  \* mAttachChallenge: the n-th generated, 0 none
                   sent |-> FALSE]],           \* history: the challenge was sent in a message
     accepted |-> 0,                 \* history: the connect requests accepted
     connected |-> <<>>,             \* history: the connected callbacks invoked
     detaching |-> {},               \* history: accepted disconnects not yet completed
     events |-> <<>>,                \* history: the events delivered by the last call
     response |-> NoChallenge,       \* history: the Response TLV of the message handled
     args |-> <<>>]                  \* history: the arguments of the connect request handled

\* A call begins: its name, and nothing sent or delivered yet.
Called(p, name) ==
    [p EXCEPT !.last = name, !.result = kErrorNone, !.events = <<>>,
              !.response = NoChallenge, !.args = <<>>]

\* Callback::InvokeAndClearIfSet of mP2pConnectedCallback.
InvokeAndClearIfSet(p, error) ==
    IF p.callback = 0 THEN p
    ELSE [p EXCEPT !.connected = Append(@, <<p.callback, error>>), !.callback = 0]

\* Mle::P2pWakeupAndConnect; wakeUp is what WakeupTxScheduler::WakeUp returns.
P2pWakeupAndConnect(p, valid, aIntervalUs, aDurationMs, wakeUp) ==
    LET c == [Called(p, "Connect") EXCEPT !.args = <<valid, aIntervalUs, aDurationMs>>]
    IN  IF ~valid THEN [c EXCEPT !.result = kErrorInvalidArgs]
        ELSE IF ~(aIntervalUs > 0 /\ aDurationMs > 0) THEN [c EXCEPT !.result = kErrorInvalidArgs]
        ELSE IF ~(aIntervalUs < aDurationMs * kOneMsecInUsec)
             THEN [c EXCEPT !.result = kErrorInvalidArgs]
        ELSE IF p.mP2pState # kP2pIdle THEN [c EXCEPT !.result = kErrorInvalidState]
        ELSE IF wakeUp # kErrorNone THEN [c EXCEPT !.result = wakeUp]
        ELSE [c EXCEPT !.mP2pState = kP2pAttaching,
                       !.callback = p.accepted + 1,
                       !.accepted = p.accepted + 1,
                       !.timer = TRUE]

\* Mle::HandleP2pTimer: the timer has fired.
HandleP2pTimer(p) ==
    LET c == [Called(p, "Timer") EXCEPT !.timer = FALSE]
    IN  CASE p.mP2pState = kP2pAttaching ->
               InvokeAndClearIfSet([c EXCEPT !.mP2pState = kP2pIdle], kErrorFailed)
          [] p.mP2pState = kP2pDetaching ->
               [c EXCEPT !.events = <<<<"DISCONNECTED", p.mP2pPeer>>>>,
                         !.peers[p.mP2pPeer].state = kStateLinkRequest,
                         !.mP2pState = kP2pIdle,
                         !.detaching = IF p.mP2pPeer \in p.detaching
                                       THEN p.detaching \ {p.mP2pPeer} ELSE p.detaching]
          [] OTHER -> c

\* ChildTable::FindChild(aExtAddress, Child::kInStateAnyExceptInvalid).
FindChildAnyExceptInvalid(p, addr) ==
    IF p.peers[addr].state # kStateInvalid THEN addr ELSE NoPeer

\* ChildTable::FindChild(aExtAddress, Child::kInStateLinkRequest).
FindChildInLinkRequest(p, addr) ==
    IF p.peers[addr].state = kStateLinkRequest THEN addr ELSE NoPeer

\* Mle::P2pDisconnect; fail is where the message fails: "msg" when it cannot
\* be allocated, "send" when it cannot be sent.
P2pDisconnect(p, aExtAddress, fail) ==
    LET c == Called(p, "Disconnect")
        found == [c EXCEPT !.mP2pPeer = FindChildAnyExceptInvalid(p, aExtAddress)]
    IN  IF p.mP2pState # kP2pIdle THEN [c EXCEPT !.result = kErrorBusy]
        ELSE IF found.mP2pPeer = NoPeer THEN [found EXCEPT !.result = kErrorNotFound]
        ELSE IF fail = "msg" THEN [found EXCEPT !.result = kErrorNoBufs]
        ELSE IF fail = "send" THEN [found EXCEPT !.result = kErrorFailed]
        ELSE [found EXCEPT !.mP2pState = kP2pDetaching,
                           !.timer = TRUE,
                           !.detaching = @ \cup {aExtAddress}]

\* The neighbor Mle found for a received message (RxInfo::mNeighbor): the
\* sender's entry when Mle looked it up and it is in use, nullptr otherwise.
RxNeighbor(p, from, known) ==
    IF known THEN FindChildAnyExceptInvalid(p, from) ELSE NoPeer

\* Mle::HandleLinkTearDown.
HandleLinkTearDown(p, from, linkLocal, known) ==
    LET c == Called(p, "LinkTearDown")
    IN  IF ~linkLocal THEN c
        ELSE IF RxNeighbor(p, from, known) = NoPeer THEN c
        ELSE [c EXCEPT !.mP2pPeer = from, !.mP2pState = kP2pDetaching, !.timer = TRUE]

\* Peer::GenerateChallenge on the entry of addr.
GenerateChallenge(p, addr) ==
    [p EXCEPT !.peers[addr].challenge = @ + 1, !.peers[addr].sent = FALSE]

\* Mle::SendP2pLinkRequest, called when a wake-up frame of aExtAddress was
\* received; fail is where it fails: "msg" before the peer is looked up,
\* "child" when no child entry is free, "send" once the challenge is generated.
SendP2pLinkRequest(p, aExtAddress, fail) ==
    LET c == Called(p, "SendLinkRequest")
        g == GenerateChallenge(c, aExtAddress)
    IN  IF fail = "msg" THEN c
        ELSE IF FindChildAnyExceptInvalid(p, aExtAddress) # NoPeer
                /\ p.peers[aExtAddress].state = kStateLinkRequest THEN c
        ELSE IF FindChildAnyExceptInvalid(p, aExtAddress) = NoPeer /\ fail = "child"
             THEN c
        ELSE IF fail = "send" THEN g
        ELSE [g EXCEPT !.peers[aExtAddress].sent = TRUE,
                       !.peers[aExtAddress].state = kStateLinkRequest]

\* Mle::SendP2pLinkAcceptVariant, on the state c of the handler calling it;
\* fail is where it fails: "msg" before the challenge is generated, "send"
\* after.  The error returned is in the result.
SendP2pLinkAcceptVariant(c, aExtAddress, aIsLinkAcceptAndRequest, fail) ==
    LET peer == IF aIsLinkAcceptAndRequest THEN FindChildInLinkRequest(c, aExtAddress)
                ELSE NoPeer
        g == IF aIsLinkAcceptAndRequest THEN GenerateChallenge(c, aExtAddress) ELSE c
    IN  IF fail = "msg" THEN [c EXCEPT !.result = kErrorNoBufs]
        ELSE IF aIsLinkAcceptAndRequest /\ peer = NoPeer THEN [c EXCEPT !.result = kErrorNotFound]
        ELSE IF fail = "send" THEN [g EXCEPT !.result = kErrorFailed]
        ELSE IF aIsLinkAcceptAndRequest
             THEN [g EXCEPT !.peers[aExtAddress].sent = TRUE,
                            !.mP2pState = kP2pIdle,
                            !.events = Append(@, <<"CONNECTED", aExtAddress>>)]
             ELSE g

\* LogProcessError: the error a handler ends with is logged and dropped.
LogProcessError(c) == [c EXCEPT !.result = kErrorNone]

\* Mle::HandleP2pLinkRequest: a Link Request of the peer from; wellFormed
\* when its Mode, Challenge and Version TLVs can be read,
\* newChild when a child entry is free, fail where the answer fails.
HandleP2pLinkRequest(p, from, linkLocal, wellFormed, known, newChild, fail) ==
    LET c == Called(p, "LinkRequest")
        s == [c EXCEPT !.timer = FALSE]
        n == [s EXCEPT !.peers[from].state = kStateLinkRequest]
    IN  IF ~linkLocal THEN c
        ELSE IF ~p.timer THEN c
        ELSE IF ~wellFormed THEN s
        ELSE IF RxNeighbor(p, from, known) = NoPeer /\ ~newChild
             THEN s
        ELSE LogProcessError(SendP2pLinkAcceptVariant(n, from, TRUE, fail))

\* Mle::HandleP2pLinkAcceptVariant: a Link Accept And Request (aIsRequest) or
\* a Link Accept of the peer from.  parse is the TLV that cannot be read, if
\* any: "mode" (Mode or Version), "response", "counters" (frame counters,
\* link margin, supervision interval) or "challenge"; response is the
\* Response TLV, fail where the Link Accept sent fails.
HandleP2pLinkAcceptVariant(p, aIsRequest, from, known, parse, response, fail) ==
    LET c == [Called(p, IF aIsRequest THEN "LinkAcceptAndRequest" ELSE "LinkAccept")
                EXCEPT !.response = response]
        peer == IF RxNeighbor(p, from, known) = NoPeer THEN FindChildInLinkRequest(p, from)
                ELSE RxNeighbor(p, from, known)
        v == [c EXCEPT !.peers[from].state = kStateValid]
    IN  IF peer = NoPeer THEN c
        ELSE IF aIsRequest /\ parse = "mode" THEN c
        ELSE IF parse = "response" THEN c
        ELSE IF response # p.peers[from].challenge THEN c
        ELSE IF parse = "counters" THEN c
        ELSE IF aIsRequest /\ parse = "challenge" THEN v
        ELSE IF aIsRequest THEN LogProcessError(SendP2pLinkAcceptVariant(v, from, FALSE, fail))
        ELSE InvokeAndClearIfSet(
                 [v EXCEPT !.mP2pState = kP2pIdle,
                           !.events = Append(@, <<"CONNECTED", from>>)], kErrorNone)

\* The Response TLVs a message of the peer from can carry: the challenge
\* this device has sent to it in a message, an earlier one, or bytes that are
\* no challenge it generated.
Responses(p, from) ==
    {r \in 0 .. MaxChallenges :
        \/ r < p.peers[from].challenge
        \/ r = NoChallenge
        \/ r = p.peers[from].challenge /\ p.peers[from].sent}

\* The application asks to wake up and connect to a peer.
P2pConnect(valid, aIntervalUs, aDurationMs, wakeUp) ==
    /\ p2p.accepted < MaxConnects
    /\ p2p' = P2pWakeupAndConnect(p2p, valid, aIntervalUs, aDurationMs, wakeUp)
    /\ UNCHANGED <<schedulerVars, gRadioCaps, wed, csl, survey>>

\* mP2pTimer fires.
P2pTimerFires ==
    /\ p2p.timer
    /\ p2p' = HandleP2pTimer(p2p)
    /\ UNCHANGED <<schedulerVars, gRadioCaps, wed, csl, survey>>

\* The application asks to tear down the link to a peer.
P2pDisconnectRequest(aExtAddress, fail) ==
    /\ p2p' = P2pDisconnect(p2p, aExtAddress, fail)
    /\ UNCHANGED <<schedulerVars, gRadioCaps, wed, csl, survey>>

\* A Link Tear Down message is received.
P2pReceiveLinkTearDown(from, linkLocal, known) ==
    /\ p2p' = HandleLinkTearDown(p2p, from, linkLocal, known)
    /\ UNCHANGED <<schedulerVars, gRadioCaps, wed, csl, survey>>

\* A wake-up frame of a coordinator is received: a Link Request is sent to it.
P2pWakeupReceived(aExtAddress, fail) ==
    /\ p2p.peers[aExtAddress].challenge < MaxChallenges
    /\ p2p' = SendP2pLinkRequest(p2p, aExtAddress, fail)
    /\ UNCHANGED <<schedulerVars, gRadioCaps, wed, csl, survey>>

\* A Link Request message is received.
P2pReceiveLinkRequest(from, linkLocal, wellFormed, known, newChild, fail) ==
    /\ p2p.peers[from].challenge < MaxChallenges
    /\ p2p' = HandleP2pLinkRequest(p2p, from, linkLocal, wellFormed, known, newChild, fail)
    /\ UNCHANGED <<schedulerVars, gRadioCaps, wed, csl, survey>>

\* A Link Accept And Request or a Link Accept message is received.
P2pReceiveLinkAccept(aIsRequest, from, known, parse, response, fail) ==
    /\ response \in Responses(p2p, from)
    /\ p2p' = HandleP2pLinkAcceptVariant(p2p, aIsRequest, from, known, parse, response, fail)
    /\ UNCHANGED <<schedulerVars, gRadioCaps, wed, csl, survey>>

\* The Link Requests received and what happens to the answer: each has at
\* most one thing wrong with it.
LinkRequests ==
    {m \in [linkLocal : BOOLEAN, wellFormed : BOOLEAN, known : BOOLEAN, newChild : BOOLEAN,
            fail : {"none", "msg", "send"}] :
        /\ ~m.linkLocal => m.wellFormed /\ m.known /\ m.newChild /\ m.fail = "none"
        /\ ~m.wellFormed => m.known /\ m.newChild /\ m.fail = "none"
        /\ ~m.newChild => ~m.known /\ m.fail = "none"}

\* The Link Accepts and Link Accept And Requests received and what happens to
\* the answer: a TLV that cannot be read, or an answer that fails, not both.
LinkAccepts ==
    {m \in [aIsRequest : BOOLEAN, known : BOOLEAN,
            parse : {"none", "mode", "response", "counters", "challenge"},
            response : 0 .. MaxChallenges, fail : {"none", "msg", "send"}] :
        /\ m.parse # "none" => m.fail = "none"
        /\ m.parse \in {"mode", "response"} => m.response = NoChallenge
        /\ ~m.aIsRequest => m.parse \notin {"mode", "challenge"} /\ m.fail = "none"}

P2pSpecInit ==
    /\ SchedulerInit
    /\ gRadioCaps = NoCaps
    /\ wed = NoTiming
    /\ csl = NoTiming
    /\ p2p = P2pInit
    /\ survey = NoTiming

P2pNext ==
    \/ \E valid \in BOOLEAN, i \in ConnectIntervals, d \in ConnectDurations,
          wakeUp \in {kErrorNone, kErrorInvalidState} : P2pConnect(valid, i, d, wakeUp)
    \/ P2pTimerFires
    \/ \E a \in Addrs, fail \in {"none", "msg", "send"} : P2pDisconnectRequest(a, fail)
    \/ \E a \in Addrs, linkLocal, known \in BOOLEAN : P2pReceiveLinkTearDown(a, linkLocal, known)
    \/ \E a \in Addrs, fail \in {"none", "msg", "child", "send"} : P2pWakeupReceived(a, fail)
    \/ \E a \in Addrs, m \in LinkRequests :
          P2pReceiveLinkRequest(a, m.linkLocal, m.wellFormed, m.known, m.newChild, m.fail)
    \/ \E a \in Addrs, m \in LinkAccepts :
          P2pReceiveLinkAccept(m.aIsRequest, a, m.known, m.parse, m.response, m.fail)

P2pSpec == P2pSpecInit /\ [][P2pNext]_vars

\* The timer fires when it is left running.
P2pLiveSpec == P2pSpec /\ WF_vars(P2pTimerFires)

\* ------------------------------------------------------------------ C31

\* The connected callbacks invoked for the connect request id, in order.
InvokedFor(id) == SelectSeq(p2p.connected, LAMBDA e : e[1] = id)

\* C31: once a connect request has returned success, its connected callback
\* is eventually invoked, and it is invoked exactly once, with NONE or with
\* FAILED, whatever messages are received, lost or malformed and whatever
\* sends fail in between.
C31_ConnectCompletes ==
    /\ [](\A id \in 1 .. MaxConnects :
            /\ Len(InvokedFor(id)) <= 1
            /\ \A k \in 1 .. Len(InvokedFor(id)) :
                  InvokedFor(id)[k][2] \in {kErrorNone, kErrorFailed})
    /\ \A id \in 1 .. MaxConnects :
          (p2p.accepted >= id) ~> (Len(InvokedFor(id)) = 1)

\* ------------------------------------------------------------------ C32

\* An accepted connect request is still in progress: its connected callback
\* has not been invoked.
AttachmentInProgress ==
    \E id \in 1 .. p2p.accepted : Len(InvokedFor(id)) = 0

\* The arguments of a connect request are invalid.
InvalidConnectArgs(args) ==
    \/ ~args[1]
    \/ args[2] = 0
    \/ args[3] = 0
    \/ args[2] >= args[3] * kOneMsecInUsec

\* C32: a connect request made with invalid arguments returns INVALID_ARGS,
\* one made while an accepted request is still in progress returns
\* INVALID_STATE (or INVALID_ARGS), and a request rejected in either way
\* leaves the callback, the timer and the P2P state as they were.
C32_ConnectAdmission ==
    [][p2p'.last = "Connect" =>
         /\ InvalidConnectArgs(p2p'.args) => p2p'.result = kErrorInvalidArgs
         /\ AttachmentInProgress => p2p'.result \in {kErrorInvalidState, kErrorInvalidArgs}
         /\ p2p'.result \in {kErrorInvalidState, kErrorInvalidArgs} =>
               /\ p2p'.callback = p2p.callback
               /\ p2p'.timer = p2p.timer
               /\ p2p'.mP2pState = p2p.mP2pState]_vars

\* ------------------------------------------------------------------ C33

\* The link to the peer a has just been torn down: the timer has delivered
\* one DISCONNECTED event, for a, the peer is no longer Valid and the P2P
\* state is Idle.
Disconnected(a) ==
    /\ p2p.last = "Timer"
    /\ p2p.events = <<<<"DISCONNECTED", a>>>>
    /\ p2p.peers[a].state # kStateValid
    /\ p2p.mP2pState = kP2pIdle

\* C33: once a disconnect request for a peer has returned success, the link
\* to that peer is eventually torn down, whatever Link Tear Down messages of
\* other peers arrive before the timer fires.
C33_DisconnectCompletes ==
    \A a \in Addrs : (a \in p2p.detaching) ~> Disconnected(a)

\* ------------------------------------------------------------------ C34

\* The last call handled a Link Accept And Request or a Link Accept.
LinkAcceptHandled(p) == p.last \in {"LinkAcceptAndRequest", "LinkAccept"}

\* C34: a peer becomes Valid only when a Link Accept And Request or a Link
\* Accept is handled whose Response TLV equals the challenge this device last
\* generated for that peer and sent to it, and a message whose response is
\* missing or does not match changes no peer's state.
C34_ValidOnlyByAnsweredChallenge ==
    [][\A a \in Addrs :
         /\ p2p'.peers[a].state = kStateValid /\ p2p.peers[a].state # kStateValid =>
               /\ LinkAcceptHandled(p2p')
               /\ p2p'.response = p2p.peers[a].challenge
               /\ p2p.peers[a].challenge # NoChallenge
               /\ p2p.peers[a].sent
         /\ LinkAcceptHandled(p2p') /\ p2p'.peers[a].state # p2p.peers[a].state =>
               p2p'.response = p2p.peers[a].challenge]_vars

\* ------------------------------------------------------------------ C38

\* C38: whenever the P2P state is Attaching or Detaching, the P2P timer is
\* running, so that its handler brings the state back to Idle.
C38_TimerRunsUnlessIdle ==
    p2p.mP2pState \in {kP2pAttaching, kP2pDetaching} => p2p.timer

\* ========================================================== Site survey
\* The site survey of the diagnostics module (site_survey.cpp): its commands,
\* its timer and the frames it receives, on one device.

kErrorPending == "Pending"

kRoleDisabled == "RoleDisabled"
kRoleClient == "RoleClient"
kRoleServer == "RoleServer"

\* SiteSurvey::State; kStateDisabled is the "Disabled" defined above.
kStateClientSendingRequest == "ClientSendingRequest"
kStateServerWaitingRequest == "ServerWaitingRequest"
kStateServerWaitingAck == "ServerWaitingAck"
kStateConnectionEstablished == "ConnectionEstablished"
kStateSendingData == "SendingData"
kStateReceivingData == "ReceivingData"
kStateServerSendingReport == "ServerSendingReport"
kStateClientWaitingReport == "ClientWaitingReport"

kDirectionTx == "Tx"
kDirectionRx == "Rx"

\* The largest number of attempts and of data frames a session is configured
\* with, and the largest sequence number of a received frame.
MaxAttempts == 2
MaxNumFrames == 1
MaxSequence == 1

\* SiteSurvey after construction, with Config's defaults cut to the bounds.
SurveyInit ==
    [last |-> "Init", result |-> kErrorNone,
     mRole |-> kRoleDisabled,
     mState |-> kStateDisabled,
     timer |-> FALSE,                  \* the alarm is running
     mTxCounter |-> 0,
     mTxSequence |-> 0,
     mIsReportReceived |-> FALSE,
     mIsAsyncClient |-> FALSE,
     mConfig |-> [mDirection |-> kDirectionTx, mMaxAttempts |-> MaxAttempts,
                  mNumFrames |-> MaxNumFrames]]

\* The commands: "server start", "server stop", "client" with its options,
\* and anything else.
SurveyCommands ==
    [name : {"server start", "server stop", "other"}, async : {FALSE},
     mDirection : {kDirectionTx}, mMaxAttempts : {MaxAttempts}, parses : {TRUE}]
    \cup [name : {"client"}, async : BOOLEAN, mDirection : {kDirectionTx, kDirectionRx},
          mMaxAttempts : 1 .. MaxAttempts, parses : BOOLEAN]

\* The frames received: whether the frame passes the checks made before its
\* type is looked at, its type, its sequence number and, for a request, the
\* configuration it carries.
SurveyFrames ==
    [ok : BOOLEAN, type : {"Request"}, sequence : 0 .. MaxSequence,
     mDirection : {kDirectionTx, kDirectionRx}, mMaxAttempts : 1 .. MaxAttempts]
    \cup [ok : {TRUE}, type : {"Ack", "Report", "Data"}, sequence : 0 .. MaxSequence,
          mDirection : {kDirectionTx}, mMaxAttempts : {MaxAttempts}]

\* SiteSurvey::ProcessCommand.
ProcessCommand(s, cmd) ==
    LET c == [s EXCEPT !.last = cmd.name, !.result = kErrorNone]
    IN  CASE cmd.name = "server start" ->
               IF s.mRole # kRoleDisabled THEN [c EXCEPT !.result = kErrorInvalidState]
               ELSE [c EXCEPT !.mRole = kRoleServer,
                              !.mConfig = SurveyInit.mConfig,
                              !.mState = kStateServerWaitingRequest]
          [] cmd.name = "server stop" ->
               IF s.mRole # kRoleClient THEN [c EXCEPT !.result = kErrorInvalidState]
               ELSE [c EXCEPT !.timer = FALSE,
                              !.mState = kStateDisabled,
                              !.mRole = kRoleDisabled]
          [] cmd.name = "client" ->
               IF s.mRole # kRoleDisabled THEN [c EXCEPT !.result = kErrorInvalidState]
               ELSE IF ~cmd.parses THEN [c EXCEPT !.result = kErrorInvalidArgs]
               ELSE [c EXCEPT !.mConfig = [mDirection |-> cmd.mDirection,
                                           mMaxAttempts |-> cmd.mMaxAttempts,
                                           mNumFrames |-> MaxNumFrames],
                              !.mTxSequence = 0,
                              !.mTxCounter = 0,
                              !.mIsReportReceived = FALSE,
                              !.mIsAsyncClient = cmd.async,
                              !.mRole = kRoleClient,
                              !.timer = TRUE,
                              !.mState = kStateClientSendingRequest,
                              !.result = IF cmd.async THEN kErrorNone ELSE kErrorPending]
          [] OTHER -> [c EXCEPT !.result = kErrorInvalidArgs]

\* SendRequestFrame, SendReportFrame and SendDataFrame: a frame goes out with
\* the next sequence number and is counted.
SendCountedFrame(c) ==
    [c EXCEPT !.mTxSequence = @ + 1, !.mTxCounter = @ + 1, !.timer = TRUE]

\* SiteSurvey::TimerFired: the alarm has fired.
TimerFired(s) ==
    LET c == [s EXCEPT !.last = "TimerFired", !.result = kErrorNone, !.timer = FALSE]
        restart == [c EXCEPT !.mTxCounter = 0, !.mTxSequence = 0, !.timer = TRUE]
    IN  CASE s.mState = kStateClientSendingRequest ->
               IF s.mTxCounter < s.mConfig.mMaxAttempts THEN SendCountedFrame(c)
               ELSE [c EXCEPT !.mState = kStateDisabled, !.mRole = kRoleDisabled]
          [] s.mState = kStateClientWaitingReport ->
               [c EXCEPT !.mState = kStateDisabled, !.mRole = kRoleDisabled]
          [] s.mState = kStateServerWaitingAck ->
               IF s.mTxCounter < s.mConfig.mMaxAttempts THEN SendCountedFrame(c)
               ELSE [c EXCEPT !.mState = kStateServerWaitingRequest]
          [] s.mState = kStateServerSendingReport ->
               IF s.mTxCounter < s.mConfig.mMaxAttempts THEN SendCountedFrame(c)
               ELSE [c EXCEPT !.mState = kStateServerWaitingRequest]
          [] s.mState = kStateConnectionEstablished ->
               IF (s.mRole = kRoleServer) = (s.mConfig.mDirection = kDirectionTx)
               THEN [c EXCEPT !.timer = TRUE, !.mState = kStateReceivingData]
               ELSE [restart EXCEPT !.mState = kStateSendingData]
          [] s.mState = kStateSendingData ->
               IF s.mTxCounter < s.mConfig.mNumFrames THEN SendCountedFrame(c)
               ELSE IF s.mRole = kRoleServer
                    THEN [c EXCEPT !.mState = kStateServerWaitingRequest]
                    ELSE [c EXCEPT !.timer = TRUE, !.mState = kStateClientWaitingReport]
          [] s.mState = kStateReceivingData ->
               IF s.mRole = kRoleServer
               THEN [restart EXCEPT !.mState = kStateServerSendingReport]
               ELSE [c EXCEPT !.mState = kStateDisabled]
          [] OTHER -> c

\* SiteSurvey::IsReceiver.
IsReceiver(s) ==
    \/ s.mRole = kRoleServer /\ s.mConfig.mDirection = kDirectionTx
    \/ s.mRole = kRoleClient /\ s.mConfig.mDirection = kDirectionRx

\* SiteSurvey::ReceiveDone: the frame f has been received.
ReceiveDone(s, f) ==
    LET c == [s EXCEPT !.last = "ReceiveDone", !.result = kErrorNone]
        config == [c EXCEPT !.mConfig = [mDirection |-> f.mDirection,
                                         mMaxAttempts |-> f.mMaxAttempts,
                                         mNumFrames |-> MaxNumFrames]]
    IN  IF ~f.ok THEN c
        ELSE CASE s.mState = kStateClientSendingRequest ->
               IF f.type = "Ack" /\ f.sequence + 1 = s.mTxSequence
               THEN [c EXCEPT !.timer = TRUE, !.mState = kStateConnectionEstablished]
               ELSE c
          [] s.mState = kStateClientWaitingReport ->
               IF f.type = "Report" THEN [c EXCEPT !.mIsReportReceived = TRUE] ELSE c
          [] s.mState = kStateServerWaitingRequest ->
               IF f.type # "Request" THEN c
               ELSE IF ~(f.mMaxAttempts > f.sequence) THEN config
               ELSE [config EXCEPT !.mTxSequence = f.sequence + 1,
                                   !.mTxCounter = f.sequence + 1,
                                   !.timer = TRUE,
                                   !.mState = kStateServerWaitingAck]
          [] s.mState = kStateServerWaitingAck ->
               IF f.type = "Ack"
               THEN IF f.sequence + 1 = s.mTxSequence
                    THEN [c EXCEPT !.timer = TRUE, !.mState = kStateConnectionEstablished]
                    ELSE c
               ELSE IF f.type = "Request"
                    THEN [c EXCEPT !.mTxSequence = f.sequence + 1,
                                   !.mTxCounter = f.sequence + 1]
                    ELSE c
          [] s.mState = kStateServerSendingReport ->
               IF f.type = "Ack" /\ f.sequence + 1 = s.mTxSequence
               THEN [c EXCEPT !.timer = FALSE, !.mState = kStateServerWaitingRequest]
               ELSE c
          [] s.mState = kStateReceivingData ->
               IF IsReceiver(s) /\ f.type = "Data" THEN [c EXCEPT !.timer = TRUE] ELSE c
          [] OTHER -> c

\* A diag sitesurvey command is entered.
SurveyCommand(cmd) ==
    /\ survey' = ProcessCommand(survey, cmd)
    /\ UNCHANGED <<schedulerVars, gRadioCaps, wed, csl, p2p>>

\* The alarm fires.
SurveyTimerFired ==
    /\ survey.timer
    /\ survey' = TimerFired(survey)
    /\ UNCHANGED <<schedulerVars, gRadioCaps, wed, csl, p2p>>

\* The radio hands a received frame to the site survey.
SurveyReceiveDone(f) ==
    /\ survey' = ReceiveDone(survey, f)
    /\ UNCHANGED <<schedulerVars, gRadioCaps, wed, csl, p2p>>

SurveySpecInit ==
    /\ SchedulerInit
    /\ gRadioCaps = NoCaps
    /\ wed = NoTiming
    /\ csl = NoTiming
    /\ p2p = NoTiming
    /\ survey = SurveyInit

SurveyNext ==
    \/ \E cmd \in SurveyCommands : SurveyCommand(cmd)
    \/ SurveyTimerFired
    \/ \E f \in SurveyFrames : SurveyReceiveDone(f)

SurveySpec == SurveySpecInit /\ [][SurveyNext]_vars

\* ------------------------------------------------------------------ C35

\* C35: "server stop" entered while the role is Server stops the server: the
\* command reports success, the timer is stopped and both the state and the
\* role are Disabled.
C35_ServerStopStopsServer ==
    [][survey.mRole = kRoleServer /\ survey'.last = "server stop" =>
         /\ survey'.result = kErrorNone
         /\ ~survey'.timer
         /\ survey'.mState = kStateDisabled
         /\ survey'.mRole = kRoleDisabled]_vars

\* ------------------------------------------------------------------ C40

\* C40: the role is Disabled exactly when the state is Disabled.
C40_RoleDisabledIffStateDisabled ==
    (survey.mRole = kRoleDisabled) <=> (survey.mState = kStateDisabled)

\* ------------------------------------------------------------------ C37

\* C37: no call issues Sleep() to the driver while some consumer's state is
\* Receive: every role's Receive priority is above the Sleep priority all
\* roles share, and after an arbitration run (a request or a completion
\* callback) on a table with a consumer in Receive the calls made hold no
\* Sleep, whoever asked for Sleep.
C37_ReceiveBeatsSleep ==
    /\ \A r \in Roles : ReceivePriority(r) > kPrioritySleep
    /\ SomeIn(mRadios, {kStateReceive}) =>
           \A i \in DOMAIN issued : issued[i].op # "Sleep"

\* C37 happens: Wed asked for Sleep while Mac bids Sleep and Csl bids Receive,
\* and the run issued Csl's Receive, not a Sleep.
C37_Witness ==
    /\ lastOp.name = "Sleep"
    /\ lastOp.role = kRadioWed
    /\ mRadios[kRadioMac].mState = kStateSleep
    /\ mRadios[kRadioCsl].mState = kStateReceive
    /\ IssuedExactly(Prim("Receive", mRadios[kRadioCsl].mChannel))

\* ------------------------------------------------------------------ C39

\* C39: in the toggle strategy, for every interval and duration wake-up
\* listening is started with, the rest of the interval (interval - duration)
\* is computed without unsigned wrap-around and is at least the two guard
\* margins together; so each alarm the timer is armed with is later than the
\* one before, and the alarm ahead of a window is not before the alarm after
\* the window before it.
C39_ToggleWindowsNeverOverlap ==
    (wed.last \in {"Start", "Alarm"} /\ wed.phase \in {"receiving", "sleeping"}) =>
        /\ wed.mWakeupListenInterval >= wed.mWakeupListenDuration
        /\ wed.mWakeupListenInterval - wed.mWakeupListenDuration
               >= kMinReceiveOnAhead + kMinReceiveOnAfter
        /\ wed.last = "Alarm" => wed.fireAt > wed.pre.fireAt

\* ------------------------------------------------------------------ C36

\* The scheduler with the driver's completion of a transmission it holds: the
\* driver's process loop (platformRadioProcess) runs again and again, so a
\* transmission that stays outstanding at the driver is ended and
\* HandleTransmitDone is called.
LiveSpec == Spec /\ WF_vars(HandleTransmitDone)

\* C36: the Mac consumer does not stay in Transmit for ever: a transmit the
\* scheduler accepted is followed by the transmit-done callback, which takes
\* the Mac consumer out of Transmit and runs the arbitration, whatever the WED
\* timer does while the transmit is outstanding.
C36_TransmitCompletes ==
    (mRadios[kRadioMac].mState = kStateTransmit)
        ~> (lastOp.name = "TransmitDone" \/ mRadios[kRadioMac].mState # kStateTransmit)

====
